---------------------------- MODULE Spec2Model ----------------------------
(***************************************************************************)
(* A model of the batch pipeline of app/run.py (run_pipeline) together     *)
(* with the ledger of app/state.py and the object store of                 *)
(* app/r2_storage.py.  One behaviour is a sequence of runs that share the  *)
(* durable ledger document and the object store.                           *)
(*                                                                         *)
(* Texts are sequences of character codes: 0 is white space, 1..8 are      *)
(* lower-case letters or digits, 9 is any other character (punctuation),   *)
(* 11..18 are the upper-case forms of 1..8.  Times are whole days; 0 is    *)
(* the epoch (an unparseable publish date parses to it).                   *)
(***************************************************************************)
EXTENDS Integers, Sequences, FiniteSets, TLC

\* ------------------------------------------------------------------ bounds
MaxRuns == 2
MaxTime == 2
MaxItemsBound == 2
RetentionDays == 1
MaxMissing == 1
MaxAttemptsBound == 3
MaxFeedLen == 6
MaxLedgerOps == 3

\* -------------------------------------------------------- program constants
SimilarityNum == 84
SimilarityDen == 100

NoTs == -1

\* ------------------------------------------------------------ text helpers

LowerChar(c) == IF c > 10 THEN c - 10 ELSE c

NonAlnumToSpace(c) == IF c \in 1..8 THEN c ELSE 0

RECURSIVE CollapseSpaces(_)
CollapseSpaces(s) ==
    IF Len(s) < 2 THEN s
    ELSE IF s[1] = 0 /\ s[2] = 0 THEN CollapseSpaces(Tail(s))
    ELSE <<s[1]>> \o CollapseSpaces(Tail(s))

RECURSIVE StripLeft(_)
StripLeft(s) == IF s # <<>> /\ s[1] = 0 THEN StripLeft(Tail(s)) ELSE s

RECURSIVE StripRight(_)
StripRight(s) ==
    IF s # <<>> /\ s[Len(s)] = 0 THEN StripRight(SubSeq(s, 1, Len(s) - 1)) ELSE s

\* lower-case, every non-alphanumeric character to a space, runs of white
\* space to one space, trimmed (the alphabet holds no markup tags)
_normalize_story_text(text) ==
    StripRight(StripLeft(CollapseSpaces(
        [i \in 1..Len(text) |-> NonAlnumToSpace(LowerChar(text[i]))])))

_story_text(item) == _normalize_story_text(item.title \o <<0>> \o item.summary)

\* str.split(): the set of the maximal runs of non-space characters
RECURSIVE SplitTokens(_, _)
SplitTokens(s, cur) ==
    IF s = <<>> THEN (IF cur = <<>> THEN {} ELSE {cur})
    ELSE IF s[1] = 0
         THEN (IF cur = <<>> THEN {} ELSE {cur}) \cup SplitTokens(Tail(s), <<>>)
         ELSE SplitTokens(Tail(s), Append(cur, s[1]))

\* difflib.SequenceMatcher: length of the common run of a from i and b from j
RECURSIVE MatchLen(_, _, _, _, _, _)
MatchLen(a, i, ahi, b, j, bhi) ==
    IF i > ahi \/ j > bhi \/ a[i] # b[j] THEN 0
    ELSE 1 + MatchLen(a, i + 1, ahi, b, j + 1, bhi)

\* find_longest_match: the longest block, the earliest in a, then in b
LongestMatch(a, alo, ahi, b, blo, bhi) ==
    LET blocks == { <<i, j, MatchLen(a, i, ahi, b, j, bhi)>> :
                        i \in alo..ahi, j \in blo..bhi }
    IN  CHOOSE m \in blocks :
            \A n \in blocks :
                \/ m[3] > n[3]
                \/ m[3] = n[3] /\ m[1] < n[1]
                \/ m[3] = n[3] /\ m[1] = n[1] /\ m[2] <= n[2]

\* get_matching_blocks: the total size of the matching blocks
RECURSIVE MatchTotal(_, _, _, _, _, _)
MatchTotal(a, alo, ahi, b, blo, bhi) ==
    IF alo > ahi \/ blo > bhi THEN 0
    ELSE LET m == LongestMatch(a, alo, ahi, b, blo, bhi)
         IN  IF m[3] = 0 THEN 0
             ELSE m[3]
                  + MatchTotal(a, alo, m[1] - 1, b, blo, m[2] - 1)
                  + MatchTotal(a, m[1] + m[3], ahi, b, m[2] + m[3], bhi)

\* the two signals as fractions <<numerator, denominator>>
CharRatio(a_text, b_text) ==
    <<2 * MatchTotal(a_text, 1, Len(a_text), b_text, 1, Len(b_text)),
      Len(a_text) + Len(b_text)>>

TokenJaccard(a_text, b_text) ==
    LET a_tokens == SplitTokens(a_text, <<>>)
        b_tokens == SplitTokens(b_text, <<>>)
    IN  IF a_tokens = {} \/ b_tokens = {} THEN <<0, 1>>
        ELSE <<Cardinality(a_tokens \cap b_tokens),
               Cardinality(a_tokens \cup b_tokens)>>

FracGeq(f, g) == f[1] * g[2] >= g[1] * f[2]

FracMax(f, g) == IF FracGeq(f, g) THEN f ELSE g

\* faulty variant: empty texts are compared like any others
_story_similarity_no_empty_check(a, b) ==
    LET a_text == _story_text(a)
        b_text == _story_text(b)
    IN  IF a_text = <<>> /\ b_text = <<>> THEN <<1, 1>>
        ELSE FracMax(CharRatio(a_text, b_text), TokenJaccard(a_text, b_text))

_story_similarity(a, b) ==
    LET a_text == _story_text(a)
        b_text == _story_text(b)
    IN  IF a_text = <<>> \/ b_text = <<>> THEN <<0, 1>>
        ELSE FracMax(CharRatio(a_text, b_text), TokenJaccard(a_text, b_text))

SameStory(a, b) ==
    FracGeq(_story_similarity(a, b), <<SimilarityNum, SimilarityDen>>)


\* ------------------------------------------------------ the feeds' content
NumFeeds == 2

\* a published string is the day it names, or Unparseable (empty, or not an
\* RFC 2822 date); NoDate is the None that parsing then returns
Unparseable == 9

NoDate == -1

Epoch == 0

\* A and B tell one story ("ab cd", "Ab !cdd"); A and D carry one item ID
\* (one guid syndicated by two feeds) under different titles; C's publish
\* date does not parse.  images: the numbers of image URLs the entry may
\* carry when it is fetched.
ItemA == [item_id |-> 1, title |-> <<1, 2>>, summary |-> <<3, 4>>,
          published |-> 1, feed_name |-> 1, images |-> {0, 1}]
ItemB == [item_id |-> 2, title |-> <<11, 2>>, summary |-> <<9, 3, 4, 4>>,
          published |-> 2, feed_name |-> 2, images |-> {1}]
ItemC == [item_id |-> 3, title |-> <<5, 6>>, summary |-> <<>>,
          published |-> Unparseable, feed_name |-> 1, images |-> {1}]
ItemD == [item_id |-> 1, title |-> <<7, 8>>, summary |-> <<>>,
          published |-> 4, feed_name |-> 2, images |-> {1}]

Universe == <<ItemA, ItemB, ItemC, ItemD>>

ItemIds == { Universe[i].item_id : i \in 1..Len(Universe) }

WithImages(it, n) ==
    [item_id |-> it.item_id, title |-> it.title, summary |-> it.summary,
     published |-> it.published, feed_name |-> it.feed_name, image_urls |-> n]

RECURSIVE SubSeqsOf(_)
SubSeqsOf(s) ==
    IF s = <<>> THEN {<<>>}
    ELSE LET rest == SubSeqsOf(Tail(s))
         IN  rest \cup { <<WithImages(Head(s), n)>> \o r : n \in Head(s).images, r \in rest }

RECURSIVE SelectSeq2(_, _)
SelectSeq2(s, f) ==
    IF s = <<>> THEN <<>>
    ELSE (IF Head(s).feed_name = f THEN <<Head(s)>> ELSE <<>>) \o SelectSeq2(Tail(s), f)

\* what one fetch of feed f may return: any sub-list of the feed's entries,
\* each entry with one of its numbers of image URLs
FeedContents(f) == SubSeqsOf(SelectSeq2(Universe, f))

\* ------------------------------------------------------ candidate selection
\* _parse_rss_datetime_utc(...) or the epoch: the publish day, 0 when unparseable
\* the time zone of the machine, as the day shift it gives a date
VARIABLE local_tz

\* a published string that parses names a day (value % 100) and a zone
\* (value \div 100): GMT; a late evening west of UTC, the next day in UTC; an
\* early morning east of UTC, the day before in UTC; or no zone at all
ZoneGmt == 0
ZoneWest == 1
ZoneEast == 2
ZoneNaive == 3

\* faulty variant: a date without a zone is read in the machine's zone
NaiveShift_local == local_tz

\* if parsed.tzinfo is None: parsed = parsed.replace(tzinfo=UTC)
NaiveShift == 0

\* parsed.astimezone(UTC): the day in UTC
UtcDay(value) ==
    (value % 100) + (CASE value \div 100 = ZoneWest -> 1
                       [] value \div 100 = ZoneEast -> -1
                       [] value \div 100 = ZoneNaive -> NaiveShift
                       [] OTHER -> 0)

_parse_rss_datetime_utc(value) ==
    IF value = Unparseable THEN NoDate ELSE UtcDay(value)

\* faulty variant: the published string is compared as it stands
PublishedKey_raw(item) == item.published

\* _parse_rss_datetime_utc(item.published) or datetime(1970, 1, 1, tzinfo=UTC)
PublishedKey(item) ==
    IF _parse_rss_datetime_utc(item.published) = NoDate THEN Epoch
    ELSE _parse_rss_datetime_utc(item.published)

\* sorted(..., reverse=True): stable, equal keys keep their input order
RECURSIVE InsertNewestFirst(_, _)
InsertNewestFirst(sorted, item) ==
    IF sorted = <<>> THEN <<item>>
    ELSE IF PublishedKey(Head(sorted)) >= PublishedKey(item)
         THEN <<Head(sorted)>> \o InsertNewestFirst(Tail(sorted), item)
         ELSE <<item>> \o sorted

RECURSIVE SortNewestFrom(_, _)
SortNewestFrom(acc, items) ==
    IF items = <<>> THEN acc
    ELSE SortNewestFrom(InsertNewestFirst(acc, Head(items)), Tail(items))

\* faulty variant: the worklist is left in dedup order
_sort_items_newest_first_unsorted(items) == items

_sort_items_newest_first(items) == SortNewestFrom(<<>>, items)

RECURSIVE InsertOldestFirst(_, _)
InsertOldestFirst(sorted, item) ==
    IF sorted = <<>> THEN <<item>>
    ELSE IF PublishedKey(Head(sorted)) <= PublishedKey(item)
         THEN <<Head(sorted)>> \o InsertOldestFirst(Tail(sorted), item)
         ELSE <<item>> \o sorted

RECURSIVE SortOldestFrom(_, _)
SortOldestFrom(acc, items) ==
    IF items = <<>> THEN acc
    ELSE SortOldestFrom(InsertOldestFirst(acc, Head(items)), Tail(items))

_sort_items_oldest_first(items) == SortOldestFrom(<<>>, items)

MaxRecentPerFeed == 5

_select_recent_items(items, max_recent) ==
    IF max_recent <= 0 THEN items
    ELSE LET sorted_items == _sort_items_newest_first(items)
         IN  SubSeq(sorted_items, 1,
                    IF Len(sorted_items) < max_recent THEN Len(sorted_items)
                    ELSE max_recent)

\* the first kept item the candidate matches, 0 when there is none
RECURSIVE MatchedWith(_, _)
MatchedWith(item, kept) ==
    IF kept = <<>> THEN 0
    ELSE IF SameStory(item, Head(kept)) THEN Head(kept).item_id
    ELSE MatchedWith(item, Tail(kept))

RECURSIVE DedupFrom(_, _, _)
DedupFrom(items, kept, skipped_map) ==
    IF items = <<>> THEN [kept |-> kept, skipped_map |-> skipped_map]
    ELSE LET item == Head(items)
             matched_with == MatchedWith(item, kept)
         IN  IF matched_with # 0
             THEN DedupFrom(Tail(items), kept,
                            [k \in DOMAIN skipped_map \cup {item.item_id} |->
                                IF k = item.item_id THEN matched_with
                                ELSE skipped_map[k]])
             ELSE DedupFrom(Tail(items), Append(kept, item), skipped_map)

_select_first_chronological_unique_stories(items) ==
    DedupFrom(_sort_items_oldest_first(items), <<>>, <<>>)

\* slugify: the characters of the slug; Hyphen stands for "-"
Hyphen == 10

\* "clip"
ClipSlug == <<3, 5, 1, 7>>

SlugMaxLength == 70

\* re.sub(r"[^a-z0-9]+", "-", lowered): each run of other characters to one "-"
RECURSIVE HyphenateRuns(_)
HyphenateRuns(s) ==
    IF s = <<>> THEN <<>>
    ELSE IF s[1] \in 1..8 THEN <<s[1]>> \o HyphenateRuns(Tail(s))
    ELSE IF Len(s) >= 2 /\ s[2] \notin 1..8 THEN HyphenateRuns(Tail(s))
    ELSE <<Hyphen>> \o HyphenateRuns(Tail(s))

RECURSIVE StripHyphens(_)
StripHyphens(s) ==
    IF s # <<>> /\ s[1] = Hyphen THEN StripHyphens(Tail(s))
    ELSE IF s # <<>> /\ s[Len(s)] = Hyphen
         THEN StripHyphens(SubSeq(s, 1, Len(s) - 1))
         ELSE s

\* utils.slugify(text, max_length)
slugify(text, max_length) ==
    LET lowered == [i \in 1..Len(text) |-> LowerChar(text[i])]
        cleaned == StripHyphens(HyphenateRuns(lowered))
        named == IF cleaned = <<>> THEN ClipSlug ELSE cleaned
    IN  StripHyphens(SubSeq(named, 1,
                            IF Len(named) < max_length THEN Len(named)
                            ELSE max_length))

\* utils.sha256_text(text)[:10]: the digest is a name for the text hashed
sha256_text_10(text) == <<"sha256", text>>

\* key_date = _parse_rss_datetime_utc(published) or datetime(1970, 1, 1, tzinfo=UTC)
KeyDate(published) ==
    IF _parse_rss_datetime_utc(published) = NoDate THEN Epoch
    ELSE _parse_rss_datetime_utc(published)

\* f"videos/{key_date:%Y/%m/%d}/{slug}-{suffix}.mp4"
_build_video_key(item_title, item_id, published) ==
    [prefix |-> "videos", date |-> KeyDate(published),
     slug |-> slugify(item_title, SlugMaxLength),
     suffix |-> sha256_text_10(item_id), ext |-> "mp4"]

\* key = _build_video_key(item.title, item.item_id, item.published)
KeyOf(item) == _build_video_key(item.title, item.item_id, item.published)

Keys == { KeyOf(Universe[i]) : i \in 1..Len(Universe) }


\* -------------------------------------------------------------------- state
Creds == {"R2_ACCESS_KEY_ID", "R2_SECRET_ACCESS_KEY", "OPENAI_API_KEY",
          "ELEVENLABS_API_KEY", "ELEVENLABS_VOICE_ID",
          "SMTP_USER", "SMTP_PASS", "EMAIL_TO"}

VARIABLES
    now,            \* the clock, in days
    runs,           \* runs started so far
    r2_objects,     \* the object store: key -> LastModified, NoTs when absent
    r2_state,       \* the ledger document at state/processed.json: id -> timestamp
    videos,         \* history: every video produced, by any run
    pc,             \* where run_pipeline is
    dry_run, max_items,
    missing,        \* the required settings that are unset
    state,          \* the run's ledger (state["processed"])
    state0,         \* history: the ledger as loaded at run start
    feed_idx, feed_candidates,
    all_items, idx, seen_item_ids,
    created, processed_count, stats,
    downloaded,     \* the current item's downloaded images
    steps_ok,       \* history: the collaborator calls that succeeded for the current item
    effects,        \* history: the kinds of external call this run has made
                    \* ("item": any call made for one worklist item)
    hk,             \* history: the housekeeping steps this run has completed
    retention_days, \* settings.r2_retention_days as read by housekeeping
    tmp_dirs        \* the scratch directories (autosports_*) that exist

\* the narration and speech retry loops (script_llm.py, tts_elevenlabs.py)
VARIABLES
    rpc,            \* where the call is: "idle" outside a call
    max_retries,    \* the attempt budget per model
    model,          \* the model the retry loop runs against
    attempt,        \* the loop variable of the retry loop
    last_error,     \* last_error / last_exc
    primary_err,    \* create_script's primary_err
    calls,          \* history: the attempts made, in order
    sleeps,         \* history: the sleeps made, in order
    outcome         \* what the call returned or raised

retry == <<rpc, max_retries, model, attempt, last_error, primary_err, calls,
           sleeps, outcome>>

\* candidate selection on its own (settings.py, run.py)
VARIABLES
    sel_pc,             \* "idle" outside these runs
    env_max_recent,     \* the environment's MAX_RECENT_PER_FEED
    max_recent,         \* settings.max_recent_per_feed
    sel_items,          \* the items given
    sel_perm,           \* the same items in another order
    sel_out,            \* what the function returned for sel_items
    sel_out_perm        \* what it returned for sel_perm

select == <<sel_pc, env_max_recent, max_recent, sel_items, sel_perm, sel_out,
            sel_out_perm, local_tz>>

\* the ledger operations on their own (state.py, r2_storage.py): they act on
\* state, now and retention_days
VARIABLES
    lpc,            \* the operation made last: "idle" outside these runs
    l_store,        \* the bucket's JSON documents: key -> document
    l_item, l_ts,   \* the arguments of the last mark_processed
    l_ret,          \* what the last prune_state_by_retention returned
    l_before,       \* history: the ledger before the last operation
    l_hist          \* history: the operations made, in order

ledger_io == <<lpc, l_store, l_item, l_ts, l_ret, l_before, l_hist>>

\* download_images, delete_videos_older_than and load_style_config on their
\* own (media_fetch.py, r2_storage.py, settings.py)
VARIABLES
    upc,            \* "idle" outside these runs
    image_urls,     \* what each URL of the list does when it is requested
    max_images,
    index,          \* the URLs the loop has gone past
    paths,          \* download_images' downloaded: the index of each file written
    requested,      \* history: the URLs requested, in order
    bucket,         \* the objects of the bucket: key -> LastModified
    quiet_reply,    \* the store leaves the deleted keys out of its reply
    old_keys,       \* history: the keys sent to delete_objects
    deleted,        \* what delete_videos_older_than returned
    style_json,     \* the style.json document
    style           \* the StyleConfig loaded from it

unit == <<upc, image_urls, max_images, index, paths, requested, bucket,
          quiet_reply, old_keys, deleted, style_json, style>>

aux == <<retry, select, ledger_io, unit>>

durable == <<now, runs, r2_objects, r2_state, videos>>
config == <<dry_run, max_items, missing>>
work == <<feed_idx, feed_candidates, all_items, idx, seen_item_ids>>
results == <<created, processed_count, stats>>
vars == <<now, runs, r2_objects, r2_state, videos, pc, dry_run, max_items,
          missing, state, state0, feed_idx, feed_candidates, all_items, idx,
          seen_item_ids, created, processed_count, stats, downloaded,
          steps_ok, effects, hk, retention_days, tmp_dirs, aux>>

vars_run == <<durable, pc, config, state, state0, work, results, downloaded,
             steps_ok, effects, hk, retention_days, tmp_dirs>>

EmptyLedger == [i \in ItemIds |-> NoTs]

\* state = {"version": 1, "processed": {}}
DefaultState == EmptyLedger

ZeroStats == [entries_seen |-> 0, skipped_same_story |-> 0,
              skipped_no_image |-> 0, skipped_duplicate |-> 0,
              skipped_no_downloadable_image |-> 0, processed |-> 0,
              errors |-> 0]

\* last_error: Exception | None = None
None == [cls |-> "None", status |-> 0, model |-> "none", attempt |-> 0]

NoOutcome == [kind |-> "none", model_used |-> "none", error |-> None]

\* no run has started
RunIdle ==
    /\ now = 0 /\ runs = 0
    /\ r2_objects = [k \in Keys |-> NoTs]
    /\ r2_state = EmptyLedger
    /\ videos = {}
    /\ pc = "idle"
    /\ dry_run = FALSE /\ max_items = 0 /\ missing = {}
    /\ state = DefaultState /\ state0 = DefaultState
    /\ feed_idx = 1 /\ feed_candidates = <<>>
    /\ all_items = <<>> /\ idx = 1 /\ seen_item_ids = {}
    /\ created = <<>> /\ processed_count = 0 /\ stats = ZeroStats
    /\ downloaded = 0 /\ steps_ok = {} /\ effects = {} /\ hk = <<>>
    /\ retention_days = 0
    /\ tmp_dirs = 0

\* no narration or speech call is under way
RetryIdle ==
    /\ rpc = "idle" /\ max_retries = 0 /\ model = "none" /\ attempt = 0
    /\ last_error = None /\ primary_err = None
    /\ calls = <<>> /\ sleeps = <<>> /\ outcome = NoOutcome

EnvUnset == -1

\* no selection is being run on its own
SelectIdle ==
    /\ sel_pc = "idle" /\ env_max_recent = EnvUnset /\ max_recent = 0
    /\ sel_items = <<>> /\ sel_perm = <<>>
    /\ sel_out = <<>> /\ sel_out_perm = <<>>
    /\ local_tz = 0

\* faulty variant: the document goes under another key
STATE_KEY_other == "state/other.json"

STATE_KEY == "state/processed.json"

StoreKeys == {"state/processed.json", "state/other.json"}

\* no object under the key
NoSuchKey == [exists |-> FALSE, processed_is_dict |-> FALSE, members |-> {}]

\* no ledger operation is being run on its own
LedgerIdle ==
    /\ lpc = "idle" /\ l_store = [k \in StoreKeys |-> NoSuchKey]
    /\ l_item = 0 /\ l_ts = NoTs /\ l_ret = 0
    /\ l_before = EmptyLedger /\ l_hist = <<>>

\* the style.json document has no such member
Missing == -1

NoStyle == [caption_font_size |-> 0, caption_margin_v |-> 0, fps |-> 0,
            max_images_per_video |-> 0]

\* no function is being run on its own
UnitIdle ==
    /\ upc = "idle"
    /\ image_urls = <<>> /\ max_images = 0 /\ index = 0
    /\ paths = <<>> /\ requested = <<>>
    /\ bucket = <<>> /\ quiet_reply = FALSE /\ old_keys = {} /\ deleted = 0
    /\ style_json = NoStyle /\ style = NoStyle

Init == RunIdle /\ RetryIdle /\ SelectIdle /\ LedgerIdle /\ UnitIdle

\* faulty variant: the membership test never finds the ID
is_processed_never(st, item_id) == FALSE

\* ------------------------------------------------------------------- ledger
is_processed(st, item_id) == st[item_id] # NoTs

\* faulty variant: the ledger is left as it is
mark_processed_noop(st, item_id, timestamp) == st

\* faulty variant: an entry that exists is not overwritten
mark_processed_keep_first(st, item_id, timestamp) ==
    IF st[item_id] # NoTs THEN st ELSE [st EXCEPT ![item_id] = timestamp]

mark_processed(st, item_id, timestamp) == [st EXCEPT ![item_id] = timestamp]

\* timestamp or iso_utc(): NoTs stands for the omitted argument
TimestampOr(timestamp, t) == IF timestamp = NoTs THEN t ELSE timestamp

\* a stored timestamp that parse_iso_utc rejects
CorruptTs == -2

\* faulty variant: an entry at the cutoff is stale too
Stale_inclusive(ts, cutoff) == ts <= cutoff

\* parsed < cutoff
Stale(ts, cutoff) == ts < cutoff

\* to_delete: the entries that do not parse and the entries before the cutoff
ToDelete(st, days, t) ==
    { i \in DOMAIN st : st[i] # NoTs /\ (st[i] = CorruptTs \/ Stale(st[i], t - days)) }

\* faulty variant: with retention on, every entry is dropped
prune_state_by_retention_all(st, days, t) ==
    IF days <= 0 THEN st ELSE [i \in DOMAIN st |-> NoTs]

\* the ledger after pruning; untouched when retention_days <= 0
prune_state_by_retention(st, days, t) ==
    IF days <= 0 THEN st
    ELSE [i \in DOMAIN st |-> IF i \in ToDelete(st, days, t) THEN NoTs ELSE st[i]]

\* what prune_state_by_retention returns: len(to_delete)
prune_returns(st, days, t) ==
    IF days <= 0 THEN 0 ELSE Cardinality(ToDelete(st, days, t))

\* json.dumps(state): the members of the "processed" object
json_dumps(st) ==
    [exists |-> TRUE, processed_is_dict |-> TRUE,
     members |-> { <<i, st[i]>> : i \in { j \in DOMAIN st : st[j] # NoTs } }]

\* json.loads(raw)["processed"] as a ledger
json_loads(doc) ==
    [i \in ItemIds |->
        IF \E m \in doc.members : m[1] = i
        THEN (CHOOSE m \in doc.members : m[1] = i)[2]
        ELSE NoTs]

\* R2Storage.upload_json(key, payload)
upload_json(store, key, payload) == [store EXCEPT ![key] = json_dumps(payload)]

\* R2Storage.download_json(key, default): the default when the key is absent
download_json(store, key, default) ==
    IF store[key].exists THEN store[key] ELSE default

\* save_state(r2, state)
save_state(store, st) == upload_json(store, STATE_KEY, st)

\* load_state(r2): "processed" becomes {} when missing or not a dict
load_state(store) ==
    LET doc == download_json(store, STATE_KEY, json_dumps(DefaultState))
    IN  IF doc.processed_is_dict THEN json_loads(doc) ELSE EmptyLedger

\* R2Storage.delete_videos_older_than
delete_videos_older_than(objs, days, t) ==
    IF days <= 0 THEN objs
    ELSE [k \in DOMAIN objs |-> IF objs[k] # NoTs /\ objs[k] < t - days THEN NoTs ELSE objs[k]]

\* R2Storage.object_exists
object_exists(objs, key) == objs[key] # NoTs

\* ------------------------------------------------------------- run_pipeline
RunOver == pc \in {"idle", "done", "aborted"}

\* the clock moves between runs
Tick ==
    /\ pc \in {"done", "aborted"}
    /\ now < MaxTime
    /\ now' = now + 1
    /\ UNCHANGED <<runs, r2_objects, r2_state, videos, pc, config, state, state0,
                   work, results, downloaded, steps_ok, effects, hk, retention_days, tmp_dirs, aux>>

\* main(): a new run with its flags and its environment
StartRun ==
    /\ RunOver
    /\ runs < MaxRuns
    /\ runs' = runs + 1
    /\ dry_run' \in BOOLEAN
    /\ max_items' \in 0..MaxItemsBound
    /\ missing' \in IF dry_run' THEN {{}, Creds}
                  ELSE { m \in SUBSET Creds : Cardinality(m) <= MaxMissing }
    /\ pc' = "setup"
    /\ state' = DefaultState /\ state0' = DefaultState
    /\ feed_idx' = 1 /\ feed_candidates' = <<>>
    /\ all_items' = <<>> /\ idx' = 1 /\ seen_item_ids' = {}
    /\ created' = <<>> /\ processed_count' = 0 /\ stats' = ZeroStats
    /\ downloaded' = 0 /\ steps_ok' = {} /\ effects' = {} /\ hk' = <<>>
    /\ retention_days' = 0
    /\ UNCHANGED <<now, r2_objects, r2_state, videos, tmp_dirs, aux>>

\* faulty variant: only the storage credentials are required
RequireFails_storage_only(names) ==
    names \cap missing \cap {"R2_ACCESS_KEY_ID", "R2_SECRET_ACCESS_KEY"} # {}

\* _require: the first unset name among the given ones raises
RequireFails(names) == names \cap missing # {}

Abort ==
    /\ pc' = "aborted"

SetupDryRun ==
    /\ pc = "setup" /\ dry_run
    /\ pc' = "fetch"
    /\ UNCHANGED <<durable, config, state, state0, work, results, downloaded,
                   steps_ok, effects, hk, retention_days, tmp_dirs, aux>>

\* the storage credentials are checked before the ledger is loaded
SetupMissingStorageCreds ==
    /\ pc = "setup" /\ ~dry_run
    /\ RequireFails({"R2_ACCESS_KEY_ID", "R2_SECRET_ACCESS_KEY"})
    /\ Abort
    /\ UNCHANGED <<durable, config, state, state0, work, results, downloaded,
                   steps_ok, effects, hk, retention_days, tmp_dirs, aux>>

\* load_state raises: nothing catches it
SetupLoadFails ==
    /\ pc = "setup" /\ ~dry_run
    /\ ~RequireFails({"R2_ACCESS_KEY_ID", "R2_SECRET_ACCESS_KEY"})
    /\ effects' = effects \cup {"load"}
    /\ Abort
    /\ UNCHANGED <<durable, config, state, state0, work, results, downloaded,
                   steps_ok, hk, retention_days, tmp_dirs, aux>>

\* the ledger is loaded, then the remaining credentials are checked
SetupLoaded ==
    /\ pc = "setup" /\ ~dry_run
    /\ ~RequireFails({"R2_ACCESS_KEY_ID", "R2_SECRET_ACCESS_KEY"})
    /\ effects' = effects \cup {"load"}
    /\ state' = r2_state /\ state0' = r2_state
    /\ IF RequireFails(Creds) THEN Abort ELSE pc' = "fetch"
    /\ UNCHANGED <<durable, config, work, results, downloaded,
                   steps_ok, hk, retention_days, tmp_dirs, aux>>

\* faulty variant: a failing feed ends the run
FetchFails_fatal ==
    /\ pc = "fetch" /\ feed_idx <= NumFeeds
    /\ effects' = effects \cup {"fetch"}
    /\ stats' = [stats EXCEPT !.errors = @ + 1]
    /\ Abort
    /\ UNCHANGED <<durable, config, state, state0, work, created,
                   processed_count, downloaded, steps_ok, hk, retention_days, tmp_dirs, aux>>

\* one feed fails: counted, the next feed is fetched
FetchFails ==
    /\ pc = "fetch" /\ feed_idx <= NumFeeds
    /\ effects' = effects \cup {"fetch"}
    /\ stats' = [stats EXCEPT !.errors = @ + 1]
    /\ feed_idx' = feed_idx + 1
    /\ UNCHANGED <<durable, pc, config, state, state0, feed_candidates, all_items,
                   idx, seen_item_ids, created, processed_count, downloaded,
                   steps_ok, hk, retention_days, tmp_dirs, aux>>

FetchFeed ==
    /\ pc = "fetch" /\ feed_idx <= NumFeeds
    /\ effects' = effects \cup {"fetch"}
    /\ \E items \in FeedContents(feed_idx) :
          feed_candidates' =
              feed_candidates \o _select_recent_items(items, MaxRecentPerFeed)
    /\ feed_idx' = feed_idx + 1
    /\ UNCHANGED <<durable, pc, config, state, state0, all_items,
                   idx, seen_item_ids, results, downloaded,
                   steps_ok, hk, retention_days, tmp_dirs, aux>>

\* story dedup, then the worklist newest first
SelectWorklist ==
    /\ pc = "fetch" /\ feed_idx > NumFeeds
    /\ LET sel == _select_first_chronological_unique_stories(feed_candidates)
       IN  /\ all_items' = _sort_items_newest_first(sel.kept)
           /\ stats' = [stats EXCEPT !.entries_seen = Len(feed_candidates),
                                     !.skipped_same_story =
                                         Cardinality(DOMAIN sel.skipped_map)]
    /\ idx' = 1 /\ seen_item_ids' = {}
    /\ pc' = "loop"
    /\ UNCHANGED <<durable, config, state, state0, feed_idx, feed_candidates,
                   created, processed_count, downloaded, steps_ok, effects, hk,
                   retention_days, tmp_dirs, aux>>


\* ---------------------------------------------------------------- item loop
InLoop == pc = "loop" /\ idx <= Len(all_items)

\* faulty variant: the budget test is off by one
BudgetReached_off_by_one == max_items # 0 /\ processed_count > max_items

\* if max_items and processed_count >= max_items: break
BudgetReached == max_items # 0 /\ processed_count >= max_items

Examining == InLoop /\ ~BudgetReached

\* for item in all_items: the item being examined
cur == all_items[idx]

\* faulty variant: housekeeping is not guarded by the dry-run flag
HousekeepingDue_always == TRUE

\* if not dry_run: (housekeeping)
HousekeepingDue == ~dry_run

\* faulty variant: the directory is made with mkdtemp and never removed
ExitScratch_leak == tmp_dirs' = tmp_dirs

\* with tempfile.TemporaryDirectory(prefix="autosports_") as tmp: entered
EnterScratch == tmp_dirs' = tmp_dirs + 1

\* the with block is left: the directory it made is removed
ExitScratch == tmp_dirs' = tmp_dirs - 1

\* continue: on to the next worklist item
NextItem ==
    /\ idx' = idx + 1
    /\ pc' = "loop"
    /\ downloaded' = 0
    /\ steps_ok' = {}

\* the worklist is exhausted or the budget is reached
LoopEnds ==
    /\ pc = "loop"
    /\ idx > Len(all_items) \/ BudgetReached
    /\ pc' = IF HousekeepingDue THEN "hk_delete" ELSE "summary"
    /\ UNCHANGED <<durable, config, state, state0, work, results, downloaded,
                   steps_ok, effects, hk, retention_days, tmp_dirs, aux>>

\* faulty variant: the IDs seen in the run are not consulted
AlreadySeen_never == FALSE

\* if item.item_id in seen_item_ids
AlreadySeen == cur.item_id \in seen_item_ids

SkipDuplicateInRun ==
    /\ Examining
    /\ AlreadySeen
    /\ stats' = [stats EXCEPT !.skipped_duplicate = @ + 1]
    /\ NextItem
    /\ UNCHANGED <<durable, config, state, state0, feed_idx, feed_candidates,
                   all_items, seen_item_ids, created, processed_count, effects,
                   hk, retention_days, tmp_dirs, aux>>

SkipNoImage ==
    /\ Examining
    /\ ~AlreadySeen
    /\ cur.image_urls = 0
    /\ seen_item_ids' = seen_item_ids \cup {cur.item_id}
    /\ stats' = [stats EXCEPT !.skipped_no_image = @ + 1]
    /\ NextItem
    /\ UNCHANGED <<durable, config, state, state0, feed_idx, feed_candidates,
                   all_items, created, processed_count, effects, hk,
                   retention_days, tmp_dirs, aux>>

SkipProcessed ==
    /\ Examining
    /\ ~AlreadySeen
    /\ cur.image_urls # 0
    /\ is_processed(state, cur.item_id)
    /\ seen_item_ids' = seen_item_ids \cup {cur.item_id}
    /\ stats' = [stats EXCEPT !.skipped_duplicate = @ + 1]
    /\ NextItem
    /\ UNCHANGED <<durable, config, state, state0, feed_idx, feed_candidates,
                   all_items, created, processed_count, effects, hk,
                   retention_days, tmp_dirs, aux>>

\* faulty variant: the has-image check is missing
PassedLocalChecks_no_image_check ==
    /\ Examining
    /\ ~AlreadySeen
    /\ ~is_processed(state, cur.item_id)

\* the item passed the checks made before any external call
PassedLocalChecks ==
    /\ Examining
    /\ ~AlreadySeen
    /\ cur.image_urls # 0
    /\ ~is_processed(state, cur.item_id)

\* dry run: counted as would-be-processed, nothing else happens
DryRunWouldProcess ==
    /\ PassedLocalChecks
    /\ dry_run
    /\ seen_item_ids' = seen_item_ids \cup {cur.item_id}
    /\ processed_count' = processed_count + 1
    /\ NextItem
    /\ UNCHANGED <<durable, config, state, state0, feed_idx, feed_candidates,
                   all_items, created, stats, effects, hk, retention_days, tmp_dirs, aux>>

\* a real run asks the store whether the output key exists
BeginItem ==
    /\ PassedLocalChecks
    /\ ~dry_run
    /\ seen_item_ids' = seen_item_ids \cup {cur.item_id}
    /\ pc' = "exists"
    /\ UNCHANGED <<durable, config, state, state0, feed_idx, feed_candidates,
                   all_items, idx, results, downloaded, steps_ok, effects, hk,
                   retention_days, tmp_dirs, aux>>

\* r2.object_exists(key) raises: the call is outside the item's try block
ExistsRaises ==
    /\ pc = "exists"
    /\ effects' = effects \cup {"item"}
    /\ Abort
    /\ UNCHANGED <<durable, config, state, state0, work, results, downloaded,
                   steps_ok, hk, retention_days, tmp_dirs, aux>>

\* faulty variant: the answer of the existence check is not used
OutputExists_ignored == FALSE

\* if r2.object_exists(r2_key)
OutputExists == object_exists(r2_objects, KeyOf(cur))

ExistsTrue ==
    /\ pc = "exists"
    /\ OutputExists
    /\ effects' = effects \cup {"item"}
    /\ stats' = [stats EXCEPT !.skipped_duplicate = @ + 1]
    /\ state' = mark_processed(state, cur.item_id, now)
    /\ NextItem
    /\ UNCHANGED <<durable, config, state0, feed_idx, feed_candidates, all_items,
                   seen_item_ids, created, processed_count, hk, retention_days, tmp_dirs, aux>>

ExistsFalse ==
    /\ pc = "exists"
    /\ ~OutputExists
    /\ effects' = effects \cup {"item"}
    /\ EnterScratch
    /\ pc' = "download"
    /\ UNCHANGED <<durable, config, state, state0, work, results, downloaded,
                   steps_ok, hk, retention_days, aux>>

\* except Exception: errors += 1; continue
ItemException ==
    /\ stats' = [stats EXCEPT !.errors = @ + 1]
    /\ NextItem
    /\ UNCHANGED <<created, processed_count>>

\* faulty variant: an empty download is not detected
NothingDownloaded_never(n) == FALSE

\* if not downloaded: skip the item
NothingDownloaded(n) == n = 0

\* download_images returns the images it could fetch, possibly none
Download ==
    /\ pc = "download"
    /\ effects' = effects \cup {"item"}
    /\ \E n \in {0, 1} :
          IF NothingDownloaded(n)
          THEN /\ stats' = [stats EXCEPT !.skipped_no_downloadable_image = @ + 1]
               /\ NextItem
               /\ ExitScratch
          ELSE /\ downloaded' = n
               /\ steps_ok' = steps_ok \cup {"download"}
               /\ pc' = "script"
               /\ UNCHANGED <<idx, stats, tmp_dirs>>
    /\ UNCHANGED <<durable, config, state, state0, feed_idx, feed_candidates,
                   all_items, seen_item_ids, created, processed_count, hk,
                   retention_days, aux>>

\* a collaborator call of the item's try block that succeeds
StepOk(step, next) ==
    /\ pc = step
    /\ effects' = effects \cup {"item"}
    /\ steps_ok' = steps_ok \cup {step}
    /\ pc' = next
    /\ UNCHANGED <<now, runs, r2_state, videos, config, state, state0, work,
                   results, downloaded, hk, retention_days, tmp_dirs, aux>>

\* a collaborator call of the item's try block that raises
StepRaises(step) ==
    /\ pc = step
    /\ effects' = effects \cup {"item"}
    /\ ItemException
    /\ ExitScratch
    /\ UNCHANGED <<durable, config, state, state0, feed_idx, feed_candidates,
                   all_items, seen_item_ids, hk, retention_days, aux>>

DownloadRaises == StepRaises("download")

Script == StepOk("script", "tts") /\ UNCHANGED r2_objects
ScriptRaises == StepRaises("script")

\* faulty variant: the upload follows the speech, the render is left out
Tts_skips_render == StepOk("tts", "upload") /\ UNCHANGED r2_objects

Tts == StepOk("tts", "render") /\ UNCHANGED r2_objects
TtsRaises == StepRaises("tts")

\* probe_audio_duration, generate_srt, render_video
Render == StepOk("render", "upload") /\ UNCHANGED r2_objects
RenderRaises == StepRaises("render")

Upload ==
    /\ StepOk("upload", "presign")
    /\ r2_objects' = [r2_objects EXCEPT ![KeyOf(cur)] = now]
UploadRaises == StepRaises("upload")

Presign == StepOk("presign", "record") /\ UNCHANGED r2_objects
PresignRaises == StepRaises("presign")

\* created.append(VideoResult(...)); mark_processed(...); the counters
Record ==
    /\ pc = "record"
    /\ created' = Append(created, [item_id |-> cur.item_id,
                                   r2_key |-> KeyOf(cur),
                                   created_at |-> now])
    /\ state' = mark_processed(state, cur.item_id, now)
    /\ processed_count' = processed_count + 1
    /\ stats' = [stats EXCEPT !.processed = @ + 1]
    /\ videos' = videos \cup {[item_id |-> cur.item_id, title |-> cur.title,
                                summary |-> cur.summary,
                                r2_key |-> KeyOf(cur),
                                run |-> runs, at |-> now]}
    /\ NextItem
    /\ ExitScratch
    /\ UNCHANGED <<now, runs, r2_objects, r2_state, config, state0, feed_idx,
                   feed_candidates, all_items, seen_item_ids, effects, hk,
                   retention_days, aux>>

\* ------------------------------------------------------------- housekeeping
\* r2.delete_videos_older_than(settings.r2_retention_days)
HkDelete ==
    /\ pc = "hk_delete"
    /\ effects' = effects \cup {"delete"}
    /\ \E days \in {0, RetentionDays} :
          /\ retention_days' = days
          /\ r2_objects' = delete_videos_older_than(r2_objects, days, now)
    /\ hk' = Append(hk, "delete")
    /\ pc' = "hk_prune"
    /\ UNCHANGED <<now, runs, r2_state, videos, config, state, state0, work,
                   results, downloaded, steps_ok, tmp_dirs, aux>>

\* a housekeeping call raises: nothing catches it
HkRaises(step, effect) ==
    /\ pc = step
    /\ effects' = effects \cup {effect}
    /\ Abort
    /\ UNCHANGED <<durable, config, state, state0, work, results, downloaded,
                   steps_ok, hk, retention_days, tmp_dirs, aux>>

HkDeleteRaises == HkRaises("hk_delete", "delete")

HkPrune ==
    /\ pc = "hk_prune"
    /\ state' = prune_state_by_retention(state, retention_days, now)
    /\ hk' = Append(hk, "prune")
    /\ pc' = "hk_save"
    /\ UNCHANGED <<durable, config, state0, work, results, downloaded, steps_ok,
                   effects, retention_days, tmp_dirs, aux>>

\* save_state(r2, state)
HkSave ==
    /\ pc = "hk_save"
    /\ effects' = effects \cup {"save"}
    /\ r2_state' = state
    /\ hk' = Append(hk, "save")
    /\ pc' = "hk_send"
    /\ UNCHANGED <<now, runs, r2_objects, videos, config, state, state0, work,
                   results, downloaded, steps_ok, retention_days, tmp_dirs, aux>>

HkSaveRaises == HkRaises("hk_save", "save")

\* email_sender.send(created, ...)
HkSend ==
    /\ pc = "hk_send"
    /\ effects' = effects \cup {"email"}
    /\ hk' = Append(hk, "send")
    /\ pc' = "summary"
    /\ UNCHANGED <<durable, config, state, state0, work, results, downloaded,
                   steps_ok, retention_days, tmp_dirs, aux>>

HkSendRaises == HkRaises("hk_send", "email")

\* _write_run_summary(...); return summary
WriteSummary ==
    /\ pc = "summary"
    /\ pc' = "done"
    /\ UNCHANGED <<durable, config, state, state0, work, results, downloaded,
                   steps_ok, effects, hk, retention_days, tmp_dirs, aux>>

Next ==
    \/ Tick \/ StartRun
    \/ SetupDryRun \/ SetupMissingStorageCreds \/ SetupLoadFails \/ SetupLoaded
    \/ FetchFails \/ FetchFeed \/ SelectWorklist
    \/ LoopEnds \/ SkipDuplicateInRun \/ SkipNoImage \/ SkipProcessed
    \/ DryRunWouldProcess \/ BeginItem
    \/ ExistsRaises \/ ExistsTrue \/ ExistsFalse
    \/ Download \/ DownloadRaises
    \/ Script \/ ScriptRaises \/ Tts \/ TtsRaises \/ Render \/ RenderRaises
    \/ Upload \/ UploadRaises \/ Presign \/ PresignRaises \/ Record
    \/ HkDelete \/ HkDeleteRaises \/ HkPrune \/ HkSave \/ HkSaveRaises
    \/ HkSend \/ HkSendRaises \/ WriteSummary

Spec == Init /\ [][Next]_vars


\* ---------------------------------------------------- narration: script_llm
\* what one attempt against a model may raise: the client's errors, and the
\* errors of parsing and normalizing the answer
Exceptions ==
    {[cls |-> "APITimeoutError", status |-> 0],
     [cls |-> "RateLimitError", status |-> 429],
     [cls |-> "APIStatusError", status |-> 400],
     [cls |-> "APIStatusError", status |-> 429],
     [cls |-> "APIStatusError", status |-> 503],
     [cls |-> "JSONDecodeError", status |-> 0],
     [cls |-> "ValueError", status |-> 0]}

\* the exception object raised by attempt number n against model m
Raised(exc, m, n) ==
    [cls |-> exc.cls, status |-> exc.status, model |-> m, attempt |-> n]

\* faulty variant: every failure is retried
_is_retryable_always(exc) == TRUE

\* RateLimitError is an APIStatusError with status 429
_is_retryable(exc) ==
    IF exc.cls \in {"APITimeoutError", "RateLimitError"} THEN TRUE
    ELSE IF exc.cls = "APIStatusError"
         THEN exc.status >= 500 \/ exc.status = 429
         ELSE FALSE

\* faulty variant: every primary failure falls back
_is_fallback_worthy_always(exc) == TRUE

_is_fallback_worthy(exc) == _is_retryable(exc)

\* faulty variant: the backoff does not grow
backoff_sec_flat(n) == 1

\* backoff_sec = 2 ** (attempt - 1)
backoff_sec(n) == 2 ^ (n - 1)

\* faulty variant: one attempt too many
Exhausted_late(n) == n > max_retries

\* attempt >= self._cfg.max_retries
Exhausted(n) == n >= max_retries

\* faulty variant: the recorded primary error is not seen
HasPrimaryErr_never(err) == FALSE

\* primary_err is not None
HasPrimaryErr(err) == err # None

\* a call of create_script is about to be made
ScriptInit ==
    /\ RunIdle /\ SelectIdle /\ LedgerIdle /\ UnitIdle
    /\ rpc = "create_script"
    /\ max_retries \in 1..MaxAttemptsBound
    /\ model = "none" /\ attempt = 0
    /\ last_error = None /\ primary_err = None
    /\ calls = <<>> /\ sleeps = <<>> /\ outcome = NoOutcome

\* _run_model_with_retry(model): last_error = None, the loop starts at 1
RunModel(m) ==
    /\ rpc' = "attempt"
    /\ model' = m
    /\ attempt' = 1
    /\ last_error' = None

\* create_script: the primary model is tried first
CreateScript ==
    /\ rpc = "create_script"
    /\ RunModel("primary")
    /\ UNCHANGED <<vars_run, ledger_io, unit, select, max_retries, primary_err, calls, sleeps, outcome>>

\* the attempt answers and the answer parses: return result
AttemptReturns ==
    /\ rpc = "attempt"
    /\ calls' = Append(calls, [model |-> model, attempt |-> attempt, ok |-> TRUE,
                               error |-> None])
    /\ outcome' = [kind |-> "result", model_used |-> model, error |-> None]
    /\ rpc' = "returned"
    /\ UNCHANGED <<vars_run, ledger_io, unit, select, max_retries, model, attempt, last_error,
                   primary_err, sleeps>>

\* the attempt raises, the failure is retryable and attempts are left:
\* sleep, then the next attempt
AttemptRetry ==
    /\ rpc = "attempt"
    /\ \E exc \in Exceptions :
          /\ ~(Exhausted(attempt) \/ ~_is_retryable(exc))
          /\ last_error' = Raised(exc, model, attempt)
          /\ calls' = Append(calls, [model |-> model, attempt |-> attempt,
                                     ok |-> FALSE,
                                     error |-> Raised(exc, model, attempt)])
    /\ sleeps' = Append(sleeps, [model |-> model, attempt |-> attempt,
                                 secs |-> backoff_sec(attempt)])
    /\ attempt' = attempt + 1
    /\ UNCHANGED <<vars_run, ledger_io, unit, select, rpc, max_retries, model, primary_err, outcome>>

\* the attempt raises and the loop breaks: raise last_error
AttemptBreak ==
    /\ rpc = "attempt"
    /\ \E exc \in Exceptions :
          /\ Exhausted(attempt) \/ ~_is_retryable(exc)
          /\ last_error' = Raised(exc, model, attempt)
          /\ calls' = Append(calls, [model |-> model, attempt |-> attempt,
                                     ok |-> FALSE,
                                     error |-> Raised(exc, model, attempt)])
    /\ rpc' = "run_model_raised"
    /\ UNCHANGED <<vars_run, ledger_io, unit, select, max_retries, model, attempt, primary_err, sleeps,
                   outcome>>

\* create_script, except: the primary's failure is fallback-worthy, so the
\* fallback model is run; without a recorded error the function would end in
\* RuntimeError("Unexpected script generation state")
Fallback ==
    /\ rpc = "run_model_raised" /\ model = "primary"
    /\ _is_fallback_worthy(last_error)
    /\ primary_err' = last_error
    /\ IF HasPrimaryErr(primary_err')
       THEN RunModel("fallback") /\ outcome' = outcome
       ELSE /\ outcome' = [kind |-> "raised", model_used |-> "none",
                           error |-> [cls |-> "RuntimeError", status |-> 0,
                                      model |-> "none", attempt |-> 0]]
            /\ rpc' = "raised"
            /\ UNCHANGED <<model, attempt, last_error>>
    /\ UNCHANGED <<vars_run, ledger_io, unit, select, max_retries, calls, sleeps>>

\* create_script, except ... else: raise
PrimaryRaises ==
    /\ rpc = "run_model_raised" /\ model = "primary"
    /\ ~_is_fallback_worthy(last_error)
    /\ outcome' = [kind |-> "raised", model_used |-> "none", error |-> last_error]
    /\ rpc' = "raised"
    /\ UNCHANGED <<vars_run, ledger_io, unit, select, max_retries, model, attempt, last_error,
                   primary_err, calls, sleeps>>

\* the fallback's failure leaves create_script
FallbackRaises ==
    /\ rpc = "run_model_raised" /\ model = "fallback"
    /\ outcome' = [kind |-> "raised", model_used |-> "none", error |-> last_error]
    /\ rpc' = "raised"
    /\ UNCHANGED <<vars_run, ledger_io, unit, select, max_retries, model, attempt, last_error,
                   primary_err, calls, sleeps>>

ScriptNext ==
    \/ CreateScript \/ AttemptReturns \/ AttemptRetry \/ AttemptBreak
    \/ Fallback \/ PrimaryRaises \/ FallbackRaises

ScriptSpec == ScriptInit /\ [][ScriptNext]_vars


\* ------------------------------------------------------ speech: ElevenLabsTTS
\* what requests.post may do: answer with a status, or raise
PostOutcomes ==
    {[cls |-> "Response", status |-> 200],
     [cls |-> "Response", status |-> 400],
     [cls |-> "Response", status |-> 401],
     [cls |-> "Response", status |-> 429],
     [cls |-> "Response", status |-> 503],
     [cls |-> "Timeout", status |-> 0],
     [cls |-> "ConnectionError", status |-> 0]}

\* resp.status_code in {429, 500, 502, 503, 504}: raise requests.HTTPError
TransientStatus(status) == status \in {429, 500, 502, 503, 504}

\* resp.raise_for_status()
RaiseForStatus(status) == status >= 400

\* the attempt ends in an exception: the one post raised, or an HTTPError
PostFails(o) ==
    IF o.cls = "Response"
    THEN TransientStatus(o.status) \/ RaiseForStatus(o.status)
    ELSE TRUE

PostError(o) ==
    IF o.cls = "Response" THEN [cls |-> "HTTPError", status |-> o.status] ELSE o

\* a call of synthesize is about to be made
TtsInit ==
    /\ RunIdle /\ SelectIdle /\ LedgerIdle /\ UnitIdle
    /\ rpc = "synthesize"
    /\ max_retries \in 1..MaxAttemptsBound
    /\ model = "none" /\ attempt = 0
    /\ last_error = None /\ primary_err = None
    /\ calls = <<>> /\ sleeps = <<>> /\ outcome = NoOutcome

\* last_exc = None; the loop starts at attempt 1
Synthesize ==
    /\ rpc = "synthesize"
    /\ RunModel("tts")
    /\ UNCHANGED <<vars_run, ledger_io, unit, select, max_retries, primary_err, calls, sleeps, outcome>>

\* the audio is written: return output_path
SynthReturns ==
    /\ rpc = "attempt"
    /\ \E o \in PostOutcomes : ~PostFails(o)
    /\ calls' = Append(calls, [model |-> model, attempt |-> attempt, ok |-> TRUE,
                               error |-> None])
    /\ outcome' = [kind |-> "result", model_used |-> model, error |-> None]
    /\ rpc' = "returned"
    /\ UNCHANGED <<vars_run, ledger_io, unit, select, max_retries, model, attempt, last_error,
                   primary_err, sleeps>>

\* except Exception: any failure with attempts left is slept on and retried
SynthRetry ==
    /\ rpc = "attempt"
    /\ ~(attempt >= max_retries)
    /\ \E o \in PostOutcomes :
          /\ PostFails(o)
          /\ last_error' = Raised(PostError(o), model, attempt)
          /\ calls' = Append(calls, [model |-> model, attempt |-> attempt,
                                     ok |-> FALSE,
                                     error |-> Raised(PostError(o), model, attempt)])
    /\ sleeps' = Append(sleeps, [model |-> model, attempt |-> attempt,
                                 secs |-> 2 ^ (attempt - 1)])
    /\ attempt' = attempt + 1
    /\ UNCHANGED <<vars_run, ledger_io, unit, select, rpc, max_retries, model, primary_err, outcome>>

\* the last attempt fails: raise RuntimeError(...) from last_exc
SynthBreak ==
    /\ rpc = "attempt"
    /\ attempt >= max_retries
    /\ \E o \in PostOutcomes :
          /\ PostFails(o)
          /\ last_error' = Raised(PostError(o), model, attempt)
          /\ calls' = Append(calls, [model |-> model, attempt |-> attempt,
                                     ok |-> FALSE,
                                     error |-> Raised(PostError(o), model, attempt)])
          /\ outcome' = [kind |-> "raised", model_used |-> "none",
                         error |-> [cls |-> "RuntimeError", status |-> o.status,
                                    model |-> model, attempt |-> attempt]]
    /\ rpc' = "raised"
    /\ UNCHANGED <<vars_run, ledger_io, unit, select, max_retries, model, attempt, primary_err, sleeps>>

TtsNext == Synthesize \/ SynthReturns \/ SynthRetry \/ SynthBreak

TtsSpec == TtsInit /\ [][TtsNext]_vars


\* ------------------------------------------- settings and recent selection
\* _as_int: the default when the variable is unset or blank, else int(value)
_as_int(value, default) == IF value = EnvUnset THEN default ELSE value

\* the values MAX_RECENT_PER_FEED may be set to
ConfiguredValues == {EnvUnset, 0, 1, 5, 6, 99}

PublishedValues == {1, 2, Unparseable}

\* the entries of one feed: any list of up to MaxFeedLen items
FeedLists ==
    UNION { { [i \in 1..n |-> [item_id |-> i, published |-> f[i]]] :
                f \in [1..n -> PublishedValues] } : n \in 0..MaxFeedLen }

SelectInit ==
    /\ RunIdle /\ RetryIdle /\ LedgerIdle /\ UnitIdle
    /\ sel_pc = "start"
    /\ env_max_recent \in ConfiguredValues
    /\ max_recent = 0
    /\ sel_items \in FeedLists
    /\ sel_perm = <<>> /\ sel_out = <<>> /\ sel_out_perm = <<>>
    /\ local_tz = 0

\* load_settings: max_recent_per_feed=_as_int(os.getenv("MAX_RECENT_PER_FEED"), 5)
LoadSettings ==
    /\ sel_pc = "start"
    /\ max_recent' = _as_int(env_max_recent, MaxRecentPerFeed)
    /\ sel_pc' = "loaded"
    /\ UNCHANGED <<vars_run, ledger_io, unit, retry, env_max_recent, sel_items,
                   sel_perm, sel_out, sel_out_perm, local_tz>>

\* items = _select_recent_items(items, settings.max_recent_per_feed)
SelectRecent ==
    /\ sel_pc = "loaded"
    /\ sel_out' = _select_recent_items(sel_items, max_recent)
    /\ sel_pc' = "selected"
    /\ UNCHANGED <<vars_run, ledger_io, unit, retry, env_max_recent, max_recent,
                   sel_items, sel_perm, sel_out_perm, local_tz>>

SelectNext == LoadSettings \/ SelectRecent

SelectSpec == SelectInit /\ [][SelectNext]_vars


\* ------------------------------------------------------ story dedup alone
\* a copy of A's story that another feed publishes at A's publish time
ItemE == [item_id |-> 4, title |-> <<11, 2>>, summary |-> <<3, 4>>,
          published |-> 1, feed_name |-> 2, images |-> {1}]

\* A's entry as a second feed serves it, under A's item ID, a day later
ItemF == [item_id |-> 1, title |-> <<1, 2>>, summary |-> <<3, 4>>,
          published |-> 2, feed_name |-> 2, images |-> {1}]

\* D's story from another entry, a day before D
ItemG == [item_id |-> 5, title |-> <<7, 8>>, summary |-> <<>>,
          published |-> 3, feed_name |-> 1, images |-> {1}]

\* C's story from an entry that carries a date
ItemH == [item_id |-> 6, title |-> <<5, 6>>, summary |-> <<>>,
          published |-> 3, feed_name |-> 2, images |-> {1}]

Candidates == {WithImages(ItemA, 1), WithImages(ItemB, 1), WithImages(ItemC, 1),
               WithImages(ItemD, 1), WithImages(ItemE, 1), WithImages(ItemF, 1),
               WithImages(ItemG, 1), WithImages(ItemH, 1)}

MaxCandidates == 4

\* the lists that hold each item of the set once
Orderings(S) ==
    { f \in [1..Cardinality(S) -> S] : \A i, j \in DOMAIN f : f[i] = f[j] => i = j }

\* a candidate list and the same candidates in an order of their own
DedupInit ==
    /\ RunIdle /\ RetryIdle /\ LedgerIdle /\ UnitIdle
    /\ sel_pc = "start"
    /\ env_max_recent = EnvUnset /\ max_recent = 0
    /\ \E S \in SUBSET Candidates :
          /\ Cardinality(S) <= MaxCandidates
          /\ sel_items \in Orderings(S)
          /\ sel_perm \in Orderings(S)
    /\ sel_out = <<>> /\ sel_out_perm = <<>>
    /\ local_tz = 0

\* _select_first_chronological_unique_stories applied to each list
DedupBoth ==
    /\ sel_pc = "start"
    /\ sel_out' = _select_first_chronological_unique_stories(sel_items)
    /\ sel_out_perm' = _select_first_chronological_unique_stories(sel_perm)
    /\ sel_pc' = "selected"
    /\ UNCHANGED <<vars_run, ledger_io, unit, retry, env_max_recent, max_recent,
                   sel_items, sel_perm, local_tz>>

DedupNext == DedupBoth

DedupSpec == DedupInit /\ [][DedupNext]_vars


\* ------------------------------------------------- story similarity alone
\* the characters of the titles: a space, two letters, a punctuation mark, a
\* capital letter
SimChars == {0, 1, 2, 9, 11}

MaxTitleLen == 2

SimTitles == UNION { [1..n -> SimChars] : n \in 0..MaxTitleLen }

SimSummaries == {<<>>, <<2>>, <<9, 1>>}

SimItems ==
    [item_id : {1}, title : SimTitles, summary : SimSummaries,
     published : {1}, feed_name : {1}, image_urls : {1}]

SimInit ==
    /\ RunIdle /\ RetryIdle /\ LedgerIdle /\ UnitIdle
    /\ sel_pc = "start"
    /\ env_max_recent = EnvUnset /\ max_recent = 0
    /\ \E a, b \in SimItems : sel_items = <<a, b>>
    /\ sel_perm = <<>>
    /\ sel_out = <<>> /\ sel_out_perm = <<>>
    /\ local_tz = 0

\* _story_similarity(item, existing)
Compare ==
    /\ sel_pc = "start"
    /\ sel_out' = _story_similarity(sel_items[1], sel_items[2])
    /\ sel_pc' = "compared"
    /\ UNCHANGED <<vars_run, ledger_io, unit, retry, env_max_recent, max_recent,
                   sel_items, sel_perm, sel_out_perm, local_tz>>

SimNext == Compare

SimSpec == SimInit /\ [][SimNext]_vars


\* ------------------------------------------------------ the video key alone
TzShifts == {-1, 0, 1}

\* "Ab", "a! b", "!!", " ab!"
KeyTitles == {<<11, 2>>, <<1, 9, 0, 2>>, <<9, 9>>, <<0, 1, 2, 9>>}

\* day 1 GMT; day 1 late, west of UTC; day 2 early, east of UTC; days 1 and 2
\* without a zone; no date
KeyPublished == {1, 101, 202, 301, 302, Unparseable}

KeyItems ==
    [item_id : {1, 2}, title : KeyTitles, summary : {<<>>, <<3>>},
     published : KeyPublished, feed_name : {1, 2}, image_urls : {1}]

\* two items that agree on title, item ID and published
KeyInit ==
    /\ RunIdle /\ RetryIdle /\ LedgerIdle /\ UnitIdle
    /\ sel_pc = "start"
    /\ env_max_recent = EnvUnset /\ max_recent = 0
    /\ \E a, b \in KeyItems :
          /\ a.title = b.title /\ a.item_id = b.item_id
          /\ a.published = b.published
          /\ sel_items = <<a>> /\ sel_perm = <<b>>
    /\ sel_out = <<>> /\ sel_out_perm = <<>>
    /\ local_tz \in TzShifts

\* key = _build_video_key(item.title, item.item_id, item.published)
BuildKey ==
    /\ sel_pc = "start"
    /\ sel_out' = KeyOf(sel_items[1])
    /\ sel_pc' = "first"
    /\ UNCHANGED <<vars_run, ledger_io, unit, retry, env_max_recent, max_recent,
                   sel_items, sel_perm, sel_out_perm, local_tz>>

\* time passes and the process is started again, in any time zone
EnvChanges ==
    /\ sel_pc = "first"
    /\ now' \in 0..MaxTime
    /\ local_tz' \in TzShifts
    /\ sel_pc' = "moved"
    /\ UNCHANGED <<runs, r2_objects, r2_state, videos, pc, config, state, state0,
                   work, results, downloaded, steps_ok, effects, hk,
                   retention_days, tmp_dirs, ledger_io, unit, retry, env_max_recent,
                   max_recent, sel_items, sel_perm, sel_out, sel_out_perm>>

\* the key of the second item
BuildKeyAgain ==
    /\ sel_pc = "moved"
    /\ sel_out_perm' = KeyOf(sel_perm[1])
    /\ sel_pc' = "second"
    /\ UNCHANGED <<vars_run, ledger_io, unit, retry, env_max_recent, max_recent,
                   sel_items, sel_perm, sel_out, local_tz>>

KeyNext == BuildKey \/ EnvChanges \/ BuildKeyAgain

KeySpec == KeyInit /\ [][KeyNext]_vars


\* ------------------------------------------------------ the ledger alone
\* the timestamps a stored ledger may hold: 31, 30 and 5 days before day 31,
\* or a string that is no timestamp
LedgerNow == 31

StoredTs == {NoTs, CorruptTs, 0, 1, 26}

Ledgers == [ItemIds -> StoredTs]

\* a document whose "processed" member is not an object
Malformed == [exists |-> TRUE, processed_is_dict |-> FALSE, members |-> {}]

\* the timestamps given to mark_processed, NoTs for none
GivenTs == {NoTs, 26}

RetentionValues == {0, 30}

\* the run variables the ledger operations leave alone
vars_not_ledger == <<runs, r2_objects, r2_state, videos, pc, config, state0,
                     work, results, downloaded, steps_ok, effects, hk, tmp_dirs>>

LedgerInit ==
    /\ RetryIdle /\ SelectIdle /\ UnitIdle
    /\ runs = 0
    /\ r2_objects = [k \in Keys |-> NoTs]
    /\ r2_state = EmptyLedger
    /\ videos = {}
    /\ pc = "idle"
    /\ dry_run = FALSE /\ max_items = 0 /\ missing = {}
    /\ state0 = DefaultState
    /\ feed_idx = 1 /\ feed_candidates = <<>>
    /\ all_items = <<>> /\ idx = 1 /\ seen_item_ids = {}
    /\ created = <<>> /\ processed_count = 0 /\ stats = ZeroStats
    /\ downloaded = 0 /\ steps_ok = {} /\ effects = {} /\ hk = <<>>
    /\ tmp_dirs = 0
    /\ now = LedgerNow
    /\ retention_days \in RetentionValues
    /\ state \in Ledgers
    /\ lpc = "start"
    /\ l_store \in { [k \in StoreKeys |-> d] : d \in {NoSuchKey, Malformed} }
    /\ l_item = 0 /\ l_ts = NoTs /\ l_ret = 0
    /\ l_before = state /\ l_hist = <<>>

LedgerOp(name) ==
    /\ lpc # "idle" /\ Len(l_hist) < MaxLedgerOps
    /\ l_hist' = Append(l_hist, name)
    /\ lpc' = name
    /\ l_before' = state

\* mark_processed(state, item_id, timestamp)
MarkProcessed ==
    /\ LedgerOp("marked")
    /\ \E i \in ItemIds, ts \in GivenTs :
          /\ l_item' = i /\ l_ts' = ts
          /\ state' = mark_processed(state, i, TimestampOr(ts, now))
    /\ UNCHANGED <<vars_not_ledger, now, retention_days, retry, select, unit, l_store, l_ret>>

\* the same call once more
MarkProcessedAgain ==
    /\ lpc = "marked"
    /\ LedgerOp("marked_again")
    /\ state' = mark_processed(state, l_item, TimestampOr(l_ts, now))
    /\ UNCHANGED <<vars_not_ledger, now, retention_days, retry, select, unit, l_store,
                   l_item, l_ts, l_ret>>

\* prune_state_by_retention(state, retention_days, now)
PruneState ==
    /\ LedgerOp("pruned")
    /\ state' = prune_state_by_retention(state, retention_days, now)
    /\ l_ret' = prune_returns(state, retention_days, now)
    /\ UNCHANGED <<vars_not_ledger, now, retention_days, retry, select, unit, l_store,
                   l_item, l_ts>>

\* save_state(r2, state)
SaveState ==
    /\ LedgerOp("saved")
    /\ l_store' = save_state(l_store, state)
    /\ UNCHANGED <<vars_not_ledger, now, retention_days, state, retry, select, unit,
                   l_item, l_ts, l_ret>>

\* state = load_state(r2)
LoadState ==
    /\ LedgerOp("loaded")
    /\ state' = load_state(l_store)
    /\ UNCHANGED <<vars_not_ledger, now, retention_days, retry, select, unit, l_store,
                   l_item, l_ts, l_ret>>

LedgerNext ==
    MarkProcessed \/ MarkProcessedAgain \/ PruneState \/ SaveState \/ LoadState

LedgerSpec == LedgerInit /\ [][LedgerNext]_vars


\* ------------------------------------------------------ the item ID alone
\* the values of an entry's field: missing (or ""), " ", and a text with
\* white space around it
Bar == 9

IdTexts == {<<>>, <<0>>, <<0, 1>>}

LinkTexts == {<<>>, <<0>>, <<2, 0>>}

Entries ==
    [id : IdTexts, guid : IdTexts, link : LinkTexts, title : {<<>>, <<3>>},
     published : {<<>>, <<0>>, <<4>>}, updated : {<<>>, <<5>>},
     summary : {<<>>, <<6>>}]

EntryFields == {"id", "guid", "link", "title", "published", "updated", "summary"}

\* the values a field may change to
FieldTexts == {<<>>, <<0>>, <<7>>}

\* a or b
Or(a, b) == IF a # <<>> THEN a ELSE b

\* str.strip()
Strip(s) == StripRight(StripLeft(s))

\* utils.sha256_text(text): the digest is a name for the text hashed
sha256_text(text) == <<"sha256", text>>

compute_item_id(entry) ==
    LET guid == Strip(Or(entry.id, entry.guid))
        link == Strip(entry.link)
        title == Strip(entry.title)
        pub_date == Strip(Or(entry.published, entry.updated))
    IN  IF guid # <<>> THEN <<"guid:", guid>>
        ELSE IF link # <<>> THEN <<"link:", link>>
        ELSE <<"hash:", sha256_text(title \o <<Bar>> \o pub_date)>>

IdInit ==
    /\ RunIdle /\ RetryIdle /\ LedgerIdle /\ UnitIdle
    /\ sel_pc = "start"
    /\ env_max_recent = EnvUnset /\ max_recent = 0
    /\ \E e \in Entries : sel_items = <<e>>
    /\ sel_perm = <<>>
    /\ sel_out = <<>> /\ sel_out_perm = <<>>
    /\ local_tz = 0

\* item_id = compute_item_id(entry_dict)
ComputeId ==
    /\ sel_pc = "start"
    /\ sel_out' = compute_item_id(sel_items[1])
    /\ sel_pc' = "first"
    /\ UNCHANGED <<vars_run, ledger_io, unit, retry, env_max_recent, max_recent,
                   sel_items, sel_perm, sel_out_perm, local_tz>>

\* a later run reads the same entry with one field changed
FieldChanges ==
    /\ sel_pc = "first"
    /\ \E f \in EntryFields, v \in FieldTexts :
          sel_perm' = <<[sel_items[1] EXCEPT ![f] = v]>>
    /\ sel_pc' = "changed"
    /\ UNCHANGED <<vars_run, ledger_io, unit, retry, env_max_recent, max_recent,
                   sel_items, sel_out, sel_out_perm, local_tz>>

\* the ID of the changed entry
ComputeIdAgain ==
    /\ sel_pc = "changed"
    /\ sel_out_perm' = compute_item_id(sel_perm[1])
    /\ sel_pc' = "second"
    /\ UNCHANGED <<vars_run, ledger_io, unit, retry, env_max_recent, max_recent,
                   sel_items, sel_perm, sel_out, local_tz>>

IdNext == ComputeId \/ FieldChanges \/ ComputeIdAgain

IdSpec == IdInit /\ [][IdNext]_vars


\* ------------------------------------------------ download_images alone
MaxUrls == 4

MaxImages == 3

\* what requesting one URL does: the file is written, or requests.get,
\* raise_for_status or write_bytes raises
UrlOutcomes == {"ok", "ConnectionError", "HTTPError", "OSError"}

\* faulty variant: only the errors of requests are caught
Caught_requests_only(exc) == exc \in {"ConnectionError", "HTTPError"}

\* except Exception as exc
Caught(exc) == TRUE

\* the variables of the other functions run on their own
not_download == <<bucket, quiet_reply, old_keys, deleted, style_json, style>>

DlInit ==
    /\ RunIdle /\ RetryIdle /\ SelectIdle /\ LedgerIdle
    /\ upc = "loop"
    /\ image_urls \in UNION { [1..n -> UrlOutcomes] : n \in 0..MaxUrls }
    /\ max_images \in 0..MaxImages
    /\ index = 0 /\ paths = <<>> /\ requested = <<>>
    /\ bucket = <<>> /\ quiet_reply = FALSE /\ old_keys = {} /\ deleted = 0
    /\ style_json = NoStyle /\ style = NoStyle

\* if len(downloaded) >= max_images: break
DlBreak ==
    /\ upc = "loop" /\ index < Len(image_urls)
    /\ Len(paths) >= max_images
    /\ upc' = "returned"
    /\ UNCHANGED <<vars_run, retry, select, ledger_io, not_download, image_urls,
                   max_images, index, paths, requested>>

\* the loop has gone past every URL
DlExhausted ==
    /\ upc = "loop" /\ index = Len(image_urls)
    /\ upc' = "returned"
    /\ UNCHANGED <<vars_run, retry, select, ledger_io, not_download, image_urls,
                   max_images, index, paths, requested>>

\* the URL is requested and its file written
DlSaved ==
    /\ upc = "loop" /\ index < Len(image_urls)
    /\ Len(paths) < max_images
    /\ image_urls[index + 1] = "ok"
    /\ requested' = Append(requested, index + 1)
    /\ paths' = Append(paths, index + 1)
    /\ index' = index + 1
    /\ UNCHANGED <<vars_run, retry, select, ledger_io, not_download, upc,
                   image_urls, max_images>>

\* the URL is requested and the request or the write raises
DlFailed ==
    /\ upc = "loop" /\ index < Len(image_urls)
    /\ Len(paths) < max_images
    /\ image_urls[index + 1] # "ok"
    /\ requested' = Append(requested, index + 1)
    /\ IF Caught(image_urls[index + 1])
       THEN index' = index + 1 /\ upc' = upc
       ELSE index' = index /\ upc' = "raised"
    /\ UNCHANGED <<vars_run, retry, select, ledger_io, not_download,
                   image_urls, max_images, paths>>

\* run_pipeline: if not downloaded: skipped_no_downloadable_image, continue
AfterDownload ==
    /\ upc = "returned"
    /\ upc' = IF paths = <<>> THEN "skipped_no_downloadable_image"
              ELSE "create_script"
    /\ UNCHANGED <<vars_run, retry, select, ledger_io, not_download, image_urls,
                   max_images, index, paths, requested>>

DlNext == DlBreak \/ DlExhausted \/ DlSaved \/ DlFailed \/ AfterDownload

DlSpec == DlInit /\ [][DlNext]_vars


\* ---------------------------------------- delete_videos_older_than alone
\* the keys of the bucket: three videos and the ledger document
BucketKeys == {<<"videos/", 1>>, <<"videos/", 2>>, <<"videos/", 3>>,
               <<"state/", 1>>}

\* LastModified: 31, 30 and 5 days before day 31; NoTs for no object
Buckets == [BucketKeys -> {NoTs, 0, 1, 26}]

\* R2Storage.list_objects(prefix): the keys of every page
list_objects(objs, prefix) ==
    { k \in DOMAIN objs : objs[k] # NoTs /\ k[1] = prefix }

\* the "Deleted" member of the store's reply to delete_objects with
\* "Quiet": True
Deleted(part, quiet) == IF quiet THEN {} ELSE part

\* R2Storage.delete_objects(keys): the sum of len(resp.get("Deleted", []))
\* over the chunks
delete_objects(keys, quiet) ==
    IF keys = {} THEN 0 ELSE Cardinality(Deleted(keys, quiet))

\* the keys delete_videos_older_than collects
OldKeys(objs, days, t) ==
    { k \in list_objects(objs, "videos/") : objs[k] < t - days }

\* the variables of the other functions run on their own
not_purge == <<image_urls, max_images, index, paths, requested, style_json,
               style>>

PurgeInit ==
    /\ RetryIdle /\ SelectIdle /\ LedgerIdle
    /\ runs = 0
    /\ r2_objects = [k \in Keys |-> NoTs]
    /\ r2_state = EmptyLedger
    /\ videos = {}
    /\ pc = "idle"
    /\ dry_run = FALSE /\ max_items = 0 /\ missing = {}
    /\ state = DefaultState /\ state0 = DefaultState
    /\ feed_idx = 1 /\ feed_candidates = <<>>
    /\ all_items = <<>> /\ idx = 1 /\ seen_item_ids = {}
    /\ created = <<>> /\ processed_count = 0 /\ stats = ZeroStats
    /\ downloaded = 0 /\ steps_ok = {} /\ effects = {} /\ hk = <<>>
    /\ tmp_dirs = 0
    /\ now = LedgerNow
    /\ retention_days \in RetentionValues
    /\ upc = "start"
    /\ image_urls = <<>> /\ max_images = 0 /\ index = 0
    /\ paths = <<>> /\ requested = <<>>
    /\ bucket \in Buckets
    /\ quiet_reply \in BOOLEAN
    /\ old_keys = {} /\ deleted = 0
    /\ style_json = NoStyle /\ style = NoStyle

\* if retention_days <= 0: return 0
PurgeOff ==
    /\ upc = "start" /\ retention_days <= 0
    /\ deleted' = 0
    /\ upc' = "returned"
    /\ UNCHANGED <<vars_run, retry, select, ledger_io, not_purge, bucket,
                   quiet_reply, old_keys>>

\* the loop over self.list_objects(prefix="videos/")
PurgeCollect ==
    /\ upc = "start" /\ retention_days > 0
    /\ old_keys' = OldKeys(bucket, retention_days, now)
    /\ upc' = "collected"
    /\ UNCHANGED <<vars_run, retry, select, ledger_io, not_purge, bucket,
                   quiet_reply, deleted>>

\* deleted = self.delete_objects(old_keys); return deleted
PurgeDelete ==
    /\ upc = "collected"
    /\ bucket' = [k \in BucketKeys |-> IF k \in old_keys THEN NoTs ELSE bucket[k]]
    /\ deleted' = delete_objects(old_keys, quiet_reply)
    /\ upc' = "returned"
    /\ UNCHANGED <<vars_run, retry, select, ledger_io, not_purge, quiet_reply,
                   old_keys>>

PurgeNext == PurgeOff \/ PurgeCollect \/ PurgeDelete

PurgeSpec == PurgeInit /\ [][PurgeNext]_vars


\* ---------------------------------------------- load_style_config alone
DefaultFontSize == 46

DefaultMarginV == 96

DefaultFps == 30

DefaultMaxImages == 3

\* the style.json documents
StyleDocs ==
    [caption_font_size : {Missing, 10, 32, 33, 46, 80},
     caption_margin_v : {Missing, 96},
     fps : {Missing, 30},
     max_images_per_video : {Missing, 0, 1, 3}]

\* int(payload.get(name, default))
GetInt(doc, name, default) == IF doc[name] = Missing THEN default ELSE doc[name]

load_style_config(doc) ==
    [caption_font_size |-> GetInt(doc, "caption_font_size", DefaultFontSize),
     caption_margin_v |-> GetInt(doc, "caption_margin_v", DefaultMarginV),
     fps |-> GetInt(doc, "fps", DefaultFps),
     max_images_per_video |->
         GetInt(doc, "max_images_per_video", DefaultMaxImages)]

\* the variables of the other functions run on their own
not_style == <<image_urls, max_images, index, paths, requested, bucket,
               quiet_reply, old_keys, deleted>>

StyleInit ==
    /\ RunIdle /\ RetryIdle /\ SelectIdle /\ LedgerIdle
    /\ upc = "start"
    /\ image_urls = <<>> /\ max_images = 0 /\ index = 0
    /\ paths = <<>> /\ requested = <<>>
    /\ bucket = <<>> /\ quiet_reply = FALSE /\ old_keys = {} /\ deleted = 0
    /\ style_json \in StyleDocs
    /\ style = NoStyle

\* style = load_style_config()
LoadStyle ==
    /\ upc = "start"
    /\ style' = load_style_config(style_json)
    /\ upc' = "loaded"
    /\ UNCHANGED <<vars_run, retry, select, ledger_io, not_style, style_json>>

\* render_video(..., style=style): force_style='Fontsize={style.caption_font_size},...'
RenderWithStyle ==
    /\ upc = "loaded"
    /\ upc' = "rendered"
    /\ UNCHANGED <<vars_run, retry, select, ledger_io, not_style, style_json,
                   style>>

StyleNext == LoadStyle \/ RenderWithStyle

StyleSpec == StyleInit /\ [][StyleNext]_vars


\* ------------------------------------------- the item loop of one run alone
\* the candidates two feeds may hand over: A's entry from one feed without
\* an image URL and from another with one, and B, C and D
WorkCandidates ==
    {WithImages(ItemA, 0), WithImages(ItemA, 1), WithImages(ItemB, 1),
     WithImages(ItemC, 1), WithImages(ItemD, 1)}

MaxWork == 3

\* a run that is not a dry run has loaded its ledger and fetched its feeds
WorkInit ==
    /\ RetryIdle /\ SelectIdle /\ LedgerIdle /\ UnitIdle
    /\ now = 1 /\ runs = 1
    /\ r2_objects \in {[k \in Keys |-> NoTs],
                       [k \in Keys |-> IF k = KeyOf(ItemA) THEN 0 ELSE NoTs]}
    /\ r2_state \in {EmptyLedger, [i \in ItemIds |-> IF i = 3 THEN 0 ELSE NoTs]}
    /\ state = r2_state /\ state0 = r2_state
    /\ videos = {}
    /\ pc = "fetch"
    /\ dry_run = FALSE /\ max_items = MaxItemsBound /\ missing = {}
    /\ feed_idx = NumFeeds + 1
    /\ \E S \in SUBSET WorkCandidates :
          /\ Cardinality(S) <= MaxWork
          /\ feed_candidates \in Orderings(S)
    /\ all_items = <<>> /\ idx = 1 /\ seen_item_ids = {}
    /\ created = <<>> /\ processed_count = 0 /\ stats = ZeroStats
    /\ downloaded = 0 /\ steps_ok = {} /\ effects = {"load", "fetch"} /\ hk = <<>>
    /\ retention_days = 0
    /\ tmp_dirs = 0

WorkNext ==
    \/ SelectWorklist
    \/ LoopEnds \/ SkipDuplicateInRun \/ SkipNoImage \/ SkipProcessed
    \/ BeginItem
    \/ ExistsRaises \/ ExistsTrue \/ ExistsFalse
    \/ Download \/ DownloadRaises
    \/ Script \/ ScriptRaises \/ Tts \/ TtsRaises \/ Render \/ RenderRaises
    \/ Upload \/ UploadRaises \/ Presign \/ PresignRaises \/ Record

WorkSpec == WorkInit /\ [][WorkNext]_vars


\* =================================================================== claims
ItemSteps == {"exists", "download", "script", "tts", "render", "upload",
              "presign", "record"}

HkSteps == {"hk_delete", "hk_prune", "hk_save", "hk_send"}

HkOrder == <<"delete", "prune", "save", "send">>

\* the ledger holds an entry for the ID; the store holds the key
InLedger(st, item_id) == st[item_id] # NoTs

InStore(objs, key) == objs[key] # NoTs

IsPrefix(s, t) == Len(s) <= Len(t) /\ s = SubSeq(t, 1, Len(s))

\* the loop is about to examine all_items[idx]
AtItem ==
    /\ pc = "loop" /\ idx <= Len(all_items)
    /\ ~(max_items # 0 /\ processed_count >= max_items)

\* the step ends the current item with one of its regular outcomes
ItemOutcome ==
    \/ created' # created
    \/ stats'.skipped_duplicate # stats.skipped_duplicate
    \/ stats'.skipped_no_downloadable_image # stats.skipped_no_downloadable_image

\* C1: a failure of any step made for one worklist item (the existence check
\* included) never aborts the run: the item's steps lead only to a later
\* step of the item or back to the loop at the next item, and a step that
\* ends the item without producing or skipping it adds one to stats.errors.
C1_Step ==
    pc \in ItemSteps =>
        /\ pc' \in ItemSteps \cup {"loop"}
        /\ pc' = "loop" =>
              /\ idx' = idx + 1
              /\ ~ItemOutcome => stats'.errors = stats.errors + 1

C1_ItemFailureContained == [][C1_Step]_vars

\* C2: a non-dry run whose required credentials are all present is never
\* aborted, whatever the collaborators do: only a missing credential aborts.
C2_OnlyMissingCredentialsAbort ==
    (pc = "aborted" /\ ~dry_run) => missing # {}

AllItemCalls == {"download", "script", "tts", "render", "upload", "presign"}

\* C3: a result is appended to created only for the current item, only when
\* its download returned an image and narration, speech, render, upload and
\* URL generation succeeded for it in this run, and together with its ledger
\* mark; every item in created is marked in the run's ledger.
C3_Step ==
    /\ (created' # created /\ runs' = runs) =>
            /\ Len(created') = Len(created) + 1
            /\ SubSeq(created', 1, Len(created)) = created
            /\ created'[Len(created')].item_id = cur.item_id
            /\ downloaded >= 1
            /\ AllItemCalls \subseteq steps_ok
            /\ InLedger(state', cur.item_id)
    /\ \A i \in 1..Len(created') : InLedger(state', created'[i].item_id)

C3_CreatedOnlyOnFullSuccess == [][C3_Step]_vars

C3_Witness ==
    /\ pc = "hk_save"
    /\ Len(created) = 2

\* C4: no logical story is turned into a video twice while the first video's
\* ledger entry and artifact are within the retention window: a video is
\* never produced for an item when the durable ledger and the store hold,
\* within the window, an earlier video of the same story.
C4_Step ==
    \A q \in videos' \ videos : \A p \in videos :
        ~ /\ SameStory(p, q)
          /\ InLedger(r2_state, p.item_id)
          /\ InStore(r2_objects, p.r2_key)
          /\ q.at - p.at <= RetentionDays

C4_StoryAtMostOnce == [][C4_Step]_vars

\* the worklist item the loop examined last
prev == all_items[idx - 1]

\* C5 as claimed: an examined item whose ID is in the ledger loaded at run
\* start is skipped and counted in skipped_duplicate; no call is made for it
\* and nothing is appended to created.
C5_Original_Step ==
    (AtItem /\ InLedger(state0, cur.item_id)) =>
        /\ pc' = "loop" /\ idx' = idx + 1
        /\ stats'.skipped_duplicate = stats.skipped_duplicate + 1
        /\ created' = created /\ effects' = effects

C5_Original == [][C5_Original_Step]_vars

\* C5 amended: an examined item whose ID is in the ledger loaded at run start
\* is skipped with no call made for it and nothing appended to created; it is
\* counted in skipped_duplicate when it carries an image URL or repeats an ID
\* seen in this run, and in skipped_no_image otherwise.  No item step is ever
\* entered for such an item.
C5_Step ==
    /\ (AtItem /\ InLedger(state0, cur.item_id)) =>
          /\ pc' = "loop" /\ idx' = idx + 1
          /\ created' = created /\ effects' = effects
          /\ r2_objects' = r2_objects /\ state' = state
          /\ IF cur.image_urls # 0 \/ cur.item_id \in seen_item_ids
             THEN stats' = [stats EXCEPT !.skipped_duplicate = @ + 1]
             ELSE stats' = [stats EXCEPT !.skipped_no_image = @ + 1]
    /\ pc' \in ItemSteps => ~InLedger(state0', all_items'[idx'].item_id)

C5_LedgerItemSkipped == [][C5_Step]_vars

C5_Witness ==
    /\ pc = "loop" /\ idx > 1
    /\ InLedger(state0, prev.item_id)
    /\ prev.image_urls # 0
    /\ stats.skipped_duplicate = 1
    /\ effects = {"load", "fetch"}

\* C6: a dry run makes no call but the feed fetches, never reaches an item
\* step or a housekeeping step, keeps the default ledger, leaves created
\* empty, and changes neither the object store nor the ledger document.
C6_Step ==
    /\ dry_run' =>
          /\ effects' \subseteq {"fetch"}
          /\ pc' \notin ItemSteps \cup HkSteps
          /\ created' = <<>> /\ hk' = <<>>
          /\ state' = DefaultState
    /\ (dry_run /\ runs' = runs) =>
          /\ r2_objects' = r2_objects
          /\ r2_state' = r2_state
          /\ videos' = videos

C6_DryRunNoEffects == [][C6_Step]_vars

C6_Witness ==
    /\ dry_run /\ pc = "done"
    /\ processed_count = 2
    /\ missing = Creds

\* C7 as claimed: a dry run counts an item only if its ID is not in the
\* durable ledger and its output key does not exist in storage.
C7_Original_Step ==
    (dry_run /\ processed_count' = processed_count + 1) =>
        /\ ~InLedger(r2_state, cur.item_id)
        /\ ~InStore(r2_objects, KeyOf(cur))

C7_Original == [][C7_Original_Step]_vars

\* C7 amended: a dry run counts an item only after the checks it makes: the
\* ID was not seen earlier in the run, the item carries an image URL, and
\* the ID is not in the run's ledger, which in a dry run is the empty
\* default; the durable ledger and the store are not consulted.
C7_Step ==
    (dry_run /\ processed_count' = processed_count + 1) =>
        /\ AtItem
        /\ cur.item_id \notin seen_item_ids
        /\ cur.image_urls # 0
        /\ ~InLedger(state, cur.item_id)
        /\ state = DefaultState
        /\ effects' = effects

C7_DryRunCountsAfterLocalChecks == [][C7_Step]_vars

C7_Witness ==
    /\ dry_run /\ pc = "loop"
    /\ Len(all_items) = 1 /\ idx = 2
    /\ processed_count = 1
    /\ InLedger(r2_state, prev.item_id)
    /\ InStore(r2_objects, KeyOf(prev))

\* C8: with a budget max_items = N > 0 the processed count never exceeds N;
\* it grows only by one, and only when a video is produced or (dry run) an
\* item is counted as would-be-processed; a step that counts a skip or an
\* error leaves it unchanged; once it has reached N no further item is
\* examined.
C8_Step ==
    (max_items > 0 /\ runs' = runs) =>
        /\ processed_count' <= max_items
        /\ processed_count' # processed_count =>
              /\ processed_count' = processed_count + 1
              /\ IF dry_run THEN stats' = stats /\ idx' = idx + 1
                 ELSE Len(created') = Len(created) + 1
        /\ (\/ stats'.errors # stats.errors
            \/ stats'.skipped_duplicate # stats.skipped_duplicate
            \/ stats'.skipped_no_image # stats.skipped_no_image
            \/ stats'.skipped_no_downloadable_image
                   # stats.skipped_no_downloadable_image) =>
              processed_count' = processed_count
        /\ processed_count >= max_items =>
              /\ idx' = idx /\ seen_item_ids' = seen_item_ids
              /\ stats' = stats /\ created' = created
              /\ pc' \notin ItemSteps

C8_BudgetRespected == [][C8_Step]_vars

C8_Witness ==
    /\ max_items = 1 /\ processed_count = 1
    /\ idx <= Len(all_items)
    /\ pc = "hk_delete"
    /\ stats.errors = 1

\* the order of housekeeping: the steps run only after the item loop has
\* ended, in the order delete, prune, save, send, none repeated and none
\* before its predecessor; objects are deleted only by the first step and
\* the ledger document is written only by the third, never while items are
\* being processed; created does not change any more.
HousekeepingOrder_Step ==
    /\ IsPrefix(hk', HkOrder)
    /\ hk' # <<>> =>
          /\ ~dry_run'
          /\ pc' \in HkSteps \cup {"summary", "done", "aborted"}
    /\ pc' \in HkSteps =>
          /\ idx' > Len(all_items') \/ (max_items' # 0 /\ processed_count' >= max_items')
          /\ hk' = SubSeq(HkOrder, 1, CASE pc' = "hk_delete" -> 0
                                        [] pc' = "hk_prune" -> 1
                                        [] pc' = "hk_save" -> 2
                                        [] pc' = "hk_send" -> 3)
    /\ r2_state' # r2_state => (pc = "hk_save" /\ hk' = <<"delete", "prune", "save">>)
    /\ (\E k \in Keys : r2_objects[k] # NoTs /\ r2_objects'[k] = NoTs) =>
          (pc = "hk_delete" /\ hk' = <<"delete">>)
    /\ pc \in HkSteps => (created' = created /\ idx' = idx)

HousekeepingOrder == [][HousekeepingOrder_Step]_vars

\* C9: in a non-dry run housekeeping happens only after the item loop has
\* ended and in the order delete, prune, save, send, each step exactly once:
\* a run whose loop has ended (the delete call was made) ends only with all
\* four steps done; the ledger is never saved while items are processed.
C9_Step ==
    /\ HousekeepingOrder_Step
    /\ (~dry_run' /\ pc' \in {"done", "aborted"} /\ "delete" \in effects') =>
          hk' = HkOrder

C9_HousekeepingEachStepOnce == [][C9_Step]_vars

\* C10: a non-dry run with a required credential missing raises in setup:
\* no feed is fetched, no item is examined, no call but (at most) the ledger
\* load is made, and the store and the ledger document are left as they were.
C10_Step ==
    /\ (~dry_run' /\ missing' # {} /\ pc' # "setup") =>
          /\ pc' = "aborted"
          /\ effects' \subseteq {"load"}
          /\ feed_idx' = 1 /\ feed_candidates' = <<>>
          /\ all_items' = <<>> /\ idx' = 1
          /\ created' = <<>> /\ hk' = <<>> /\ stats' = ZeroStats
    /\ (~dry_run /\ missing # {} /\ runs' = runs) =>
          /\ r2_objects' = r2_objects
          /\ r2_state' = r2_state

C10_MissingCredentialAborts == [][C10_Step]_vars

C10_Witness ==
    /\ pc = "aborted" /\ ~dry_run
    /\ missing = {"EMAIL_TO"}
    /\ effects = {"load"}
    /\ \E i \in ItemIds : InLedger(r2_state, i)

\* C11: a failure while fetching one feed is not fatal: the step that counts
\* it leaves the candidates as they were and moves to the next feed; every
\* feed is attempted once, in turn, a successful fetch adds only items of its
\* own feed; the fetch phase never aborts and ends, after the last feed, in
\* dedup and the item loop over the candidates gathered.
C11_Step ==
    pc = "fetch" =>
        /\ pc' \in {"fetch", "loop"}
        /\ pc' = "fetch" =>
              /\ feed_idx <= NumFeeds /\ feed_idx' = feed_idx + 1
              /\ Len(feed_candidates') >= Len(feed_candidates)
              /\ SubSeq(feed_candidates', 1, Len(feed_candidates)) = feed_candidates
              /\ \A i \in Len(feed_candidates) + 1 .. Len(feed_candidates') :
                    feed_candidates'[i].feed_name = feed_idx
        /\ stats'.errors # stats.errors =>
              /\ stats'.errors = stats.errors + 1
              /\ feed_candidates' = feed_candidates
              /\ pc' = "fetch"
        /\ pc' = "loop" =>
              /\ feed_idx > NumFeeds
              /\ feed_candidates' = feed_candidates
              /\ stats'.entries_seen = Len(feed_candidates)
              /\ all_items' = _sort_items_newest_first(
                     _select_first_chronological_unique_stories(feed_candidates).kept)
              /\ idx' = 1

C11_FeedFailureNotFatal == [][C11_Step]_vars

\* feed 1 failed, feed 2 was fetched, and its item is being processed
C11_Witness ==
    /\ ~dry_run /\ pc = "download"
    /\ stats.errors = 1
    /\ Len(all_items) = 1 /\ idx = 1
    /\ all_items[1].feed_name = 2

\* ----------------------------------------------------------- retry claims
Models == {"primary", "fallback"}

CallsOf(m) == SelectSeq(calls, LAMBDA c : c.model = m)

SleepsOf(m) == SelectSeq(sleeps, LAMBDA z : z.model = m)

\* timeout, rate limit, HTTP 429 or HTTP 5xx
RetryableFailure(e) ==
    \/ e.cls = "APITimeoutError"
    \/ e.cls = "RateLimitError"
    \/ e.cls = "APIStatusError" /\ (e.status = 429 \/ e.status >= 500)

AllRetryableFailures(c, n) ==
    \A i \in 1..n : ~c[i].ok /\ RetryableFailure(c[i].error)

Ended == rpc \in {"returned", "raised"}

\* C12: against one model, k retryable failures (k < max_retries) followed
\* by a success return the success result after exactly k+1 attempts,
\* numbered 1..k+1, and exactly k sleeps of 2^(attempt-1) for attempt 1..k,
\* strictly increasing; while fewer than max_retries attempts have all
\* failed retryably the loop is about to attempt again.
C12_RetryThenSuccess ==
    \A m \in Models :
        LET c == CallsOf(m)
            z == SleepsOf(m)
            k == Len(c) - 1
        IN  /\ (c # <<>> /\ c[Len(c)].ok /\ AllRetryableFailures(c, k)) =>
                  /\ k < max_retries
                  /\ rpc = "returned"
                  /\ outcome = [kind |-> "result", model_used |-> m, error |-> None]
                  /\ \A i \in 1..Len(c) : c[i].attempt = i
                  /\ Len(z) = k
                  /\ \A i \in 1..k : z[i].attempt = i /\ z[i].secs = 2 ^ (i - 1)
                  /\ \A i \in 1..(k - 1) : z[i].secs < z[i + 1].secs
            /\ (c # <<>> /\ Len(c) < max_retries /\ AllRetryableFailures(c, Len(c))) =>
                  /\ rpc = "attempt" /\ model = m /\ attempt = Len(c) + 1
                  /\ Len(z) = Len(c)

C12_Witness ==
    /\ max_retries = 3 /\ rpc = "returned"
    /\ outcome.model_used = "primary"
    /\ Len(calls) = 3
    /\ Len(sleeps) = 2 /\ sleeps[1].secs = 1 /\ sleeps[2].secs = 2

\* C13: a non-retryable failure of an attempt is the last attempt made: no
\* attempt and no sleep follows it, and the call ends by raising that same
\* failure.
C13_NonRetryableSurfaces ==
    \A i \in 1..Len(calls) :
        (~calls[i].ok /\ ~RetryableFailure(calls[i].error)) =>
            /\ i = Len(calls)
            /\ \A j \in 1..Len(sleeps) :
                  \E h \in 1..(i - 1) :
                      /\ calls[h].model = sleeps[j].model
                      /\ calls[h].attempt = sleeps[j].attempt
            /\ rpc \in {"run_model_raised", "raised"}
            /\ last_error = calls[i].error
            /\ rpc = "raised" =>
                  outcome = [kind |-> "raised", model_used |-> "none",
                             error |-> calls[i].error]

C13_Witness ==
    /\ max_retries = 3 /\ rpc = "raised"
    /\ Len(calls) = 1 /\ calls[1].error.status = 400
    /\ sleeps = <<>>
    /\ outcome.error = calls[1].error

\* C14: against one model there are never more than max_retries attempts
\* and never a sleep after the final attempt; when max_retries attempts have
\* all failed retryably there were exactly max_retries - 1 sleeps, no further
\* attempt is made and the last failure is what the loop raises.
C14_AttemptsBounded ==
    \A m \in Models :
        LET c == CallsOf(m)
            z == SleepsOf(m)
        IN  /\ Len(c) <= max_retries
            /\ \A i \in 1..Len(c) : c[i].attempt = i
            /\ Len(z) <= max_retries - 1
            /\ \A j \in 1..Len(z) : z[j].attempt < max_retries
            /\ (Len(c) = max_retries /\ AllRetryableFailures(c, Len(c))) =>
                  /\ Len(z) = max_retries - 1
                  /\ ~(rpc = "attempt" /\ model = m)
                  /\ IF model = m THEN last_error = c[Len(c)].error
                     ELSE primary_err = c[Len(c)].error
                  /\ (m = "fallback" /\ rpc = "raised") =>
                        outcome.error = c[Len(c)].error

C14_Witness ==
    /\ max_retries = 3 /\ rpc = "raised"
    /\ Len(calls) = 6 /\ Len(sleeps) = 4
    /\ sleeps[4].model = "fallback" /\ sleeps[4].secs = 2

\* C15: the fallback model is attempted if and only if the primary's retry
\* loop ended in a failure the retryable predicate accepts (so only after
\* max_retries primary attempts); a non-retryable primary failure is raised
\* with no fallback attempt; the fallback's attempts are numbered from 1 and
\* it is given up only on a non-retryable failure or after max_retries
\* attempts of its own.
C15_FallbackIffRetryable ==
    LET p == CallsOf("primary")
        f == CallsOf("fallback")
    IN  /\ f # <<>> =>
              /\ Len(p) = max_retries
              /\ AllRetryableFailures(p, Len(p))
              /\ primary_err = p[Len(p)].error
        /\ (Ended /\ ~p[Len(p)].ok /\ RetryableFailure(p[Len(p)].error)) =>
              f # <<>>
        /\ (Ended /\ ~p[Len(p)].ok /\ ~RetryableFailure(p[Len(p)].error)) =>
              /\ f = <<>>
              /\ outcome = [kind |-> "raised", model_used |-> "none",
                            error |-> p[Len(p)].error]
        /\ \A i \in 1..Len(f) : f[i].attempt = i
        /\ Len(f) <= max_retries
        /\ (Ended /\ f # <<>> /\ AllRetryableFailures(f, Len(f))) =>
              Len(f) = max_retries

C15_Witness ==
    /\ max_retries = 3 /\ rpc = "returned"
    /\ outcome.model_used = "fallback"
    /\ Len(CallsOf("primary")) = 3
    /\ Len(CallsOf("fallback")) = 3

\* C16: a call of create_script gets its outcome once, when it ends, and it
\* is one of: the primary's result, the fallback's result, a raised failure
\* of an attempt; a result names the model of the last, successful attempt;
\* no attempt follows a successful one; the internal "Unexpected script
\* generation state" error is never raised.
C16_Step ==
    /\ outcome' # outcome => outcome = NoOutcome
    /\ (rpc' \notin {"returned", "raised"}) => outcome' = NoOutcome
    /\ \A i \in 1..(Len(calls') - 1) : ~calls'[i].ok
    /\ Len(calls') <= 2 * max_retries'
    /\ rpc' = "returned" =>
          /\ outcome'.kind = "result"
          /\ outcome'.model_used \in Models
          /\ calls'[Len(calls')].ok
          /\ calls'[Len(calls')].model = outcome'.model_used
          /\ outcome'.model_used = "primary" => CallsOf("fallback")' = <<>>
    /\ rpc' = "raised" =>
          /\ outcome'.kind = "raised"
          /\ outcome'.error.cls # "RuntimeError"
          /\ ~calls'[Len(calls')].ok
          /\ outcome'.error = calls'[Len(calls')].error

C16_OneOutcome == [][C16_Step]_vars

C16_Witness ==
    /\ max_retries = 1 /\ rpc = "returned"
    /\ outcome = [kind |-> "result", model_used |-> "fallback", error |-> None]
    /\ Len(calls) = 2

\* the failures the claim names as non-retryable: a bad-request or auth
\* rejection, any client-error status but 429
RejectedRequest(e) ==
    e.cls = "HTTPError" /\ e.status >= 400 /\ e.status < 500 /\ e.status # 429

\* C17: synthesize retries only retryable failures: after an attempt
\* rejected as a bad request or for its credentials no further attempt is
\* made; it makes at most max_retries attempts, sleeps 2^(attempt-1) between
\* them, and calls no second provider.
C17_SpeechRetriesOnlyRetryable ==
    /\ \A i \in 1..Len(calls) :
          (~calls[i].ok /\ RejectedRequest(calls[i].error)) => i = Len(calls)
    /\ Len(calls) <= max_retries
    /\ \A i \in 1..Len(calls) : calls[i].model = "tts" /\ calls[i].attempt = i
    /\ \A j \in 1..Len(sleeps) :
          sleeps[j].attempt = j /\ sleeps[j].secs = 2 ^ (j - 1)
    /\ Len(sleeps) <= max_retries - 1

\* ------------------------------------------------------- selection claims
\* the parsed publish time, an unparseable one counting as epoch zero
ParsedTime(item) == IF item.published = Unparseable THEN 0 ELSE item.published

\* C18: for a cap N > 0 _select_recent_items returns min(N, number of items)
\* of the given items, each at most once; no item left out is later than a
\* returned one (unparseable publish times counting as epoch zero); the
\* returned items are in descending order of publish time.
C18_SelectRecent ==
    (sel_pc = "selected" /\ max_recent > 0) =>
        /\ Len(sel_out) = IF max_recent < Len(sel_items) THEN max_recent
                          ELSE Len(sel_items)
        /\ \A i \in 1..Len(sel_out) :
              \E j \in 1..Len(sel_items) : sel_items[j] = sel_out[i]
        /\ \A i, j \in 1..Len(sel_out) :
              i # j => sel_out[i].item_id # sel_out[j].item_id
        /\ \A j \in 1..Len(sel_items) :
              (\A i \in 1..Len(sel_out) : sel_out[i] # sel_items[j]) =>
                  \A i \in 1..Len(sel_out) :
                      ParsedTime(sel_items[j]) <= ParsedTime(sel_out[i])
        /\ \A i \in 1..(Len(sel_out) - 1) :
              ParsedTime(sel_out[i]) >= ParsedTime(sel_out[i + 1])

\* six items, cap five: the one left out is the unparseable first item
C18_Witness ==
    /\ sel_pc = "selected" /\ max_recent = 5
    /\ Len(sel_items) = 6 /\ Len(sel_out) = 5
    /\ sel_items[1].published = Unparseable
    /\ \A i \in 1..Len(sel_out) : sel_out[i].published # Unparseable

HardCap == 5

\* C19: whatever MAX_RECENT_PER_FEED is set to, the cap the run uses is at
\* most 5, and no feed contributes more than 5 candidates.
C19_HardCap ==
    /\ sel_pc \in {"loaded", "selected"} => max_recent <= HardCap
    /\ sel_pc = "selected" => Len(sel_out) <= HardCap

\* C20: story dedup does not depend on the order of its input: for a
\* candidate list and any reordering of it the kept sequence is the same and
\* the skipped-to-keeper mapping is the same.
C20_DedupOrderIndependent ==
    sel_pc = "selected" =>
        /\ sel_out.kept = sel_out_perm.kept
        /\ sel_out.skipped_map = sel_out_perm.skipped_map

\* the order of the input matters only between items of one publish time:
\* on lists whose publish times are pairwise distinct the result is the same
DistinctTimes(items) ==
    \A i, j \in 1..Len(items) :
        i # j => PublishedKey(items[i]) # PublishedKey(items[j])

DedupOrderIndependentOnDistinctTimes ==
    (sel_pc = "selected" /\ DistinctTimes(sel_items)) =>
        /\ sel_out.kept = sel_out_perm.kept
        /\ sel_out.skipped_map = sel_out_perm.skipped_map

\* ----------------------------------------------------------- dedup claims
InSeq(x, seq) == \E i \in 1..Len(seq) : seq[i] = x

\* C21: after story dedup every input item is in kept or its ID is recorded
\* in the skipped mapping, never both; every two kept items have similarity
\* below the threshold; every skipped item's ID maps to the ID of a kept
\* item whose similarity to the skipped item is at least the threshold.
C21_DedupPartition ==
    sel_pc = "selected" =>
        LET kept == sel_out.kept
            skipped_map == sel_out.skipped_map
        IN  /\ \A i \in 1..Len(sel_items) :
                  InSeq(sel_items[i], kept)
                      # (sel_items[i].item_id \in DOMAIN skipped_map)
            /\ \A i, j \in 1..Len(kept) :
                  i # j => ~SameStory(kept[i], kept[j])
            /\ \A i \in 1..Len(sel_items) :
                  ~InSeq(sel_items[i], kept) =>
                      \E k \in 1..Len(kept) :
                          /\ kept[k].item_id = skipped_map[sel_items[i].item_id]
                          /\ SameStory(sel_items[i], kept[k])

\* the mapping is keyed by item ID: on inputs whose item IDs are pairwise
\* distinct the three parts hold
DistinctIds(items) ==
    \A i, j \in 1..Len(items) : i # j => items[i].item_id # items[j].item_id

DedupPartitionOnDistinctIds ==
    (sel_pc = "selected" /\ DistinctIds(sel_items)) =>
        LET kept == sel_out.kept
            skipped_map == sel_out.skipped_map
        IN  /\ \A i \in 1..Len(sel_items) :
                  InSeq(sel_items[i], kept)
                      # (sel_items[i].item_id \in DOMAIN skipped_map)
            /\ \A i, j \in 1..Len(kept) :
                  i # j => ~SameStory(kept[i], kept[j])
            /\ \A i \in 1..Len(sel_items) :
                  ~InSeq(sel_items[i], kept) =>
                      \E k \in 1..Len(kept) :
                          /\ kept[k].item_id = skipped_map[sel_items[i].item_id]
                          /\ SameStory(sel_items[i], kept[k])

\* C22: the loop visits the worklist in non-increasing order of parsed
\* publish time (an unparseable date counting as epoch zero), one item at a
\* time: the worklist is fixed and sorted while the loop runs, the position
\* moves by one item at most, and when the item budget ends the loop every
\* item not visited is no newer than every item visited.
C22_Step ==
    /\ pc' \in ItemSteps \cup HkSteps \cup {"loop", "summary", "done"} =>
          \A i \in 1..(Len(all_items') - 1) :
              ParsedTime(all_items'[i]) >= ParsedTime(all_items'[i + 1])
    /\ (pc \in ItemSteps \cup {"loop"} /\ runs' = runs) =>
          /\ all_items' = all_items
          /\ idx' \in {idx, idx + 1}
          /\ idx' <= Len(all_items) + 1
    /\ (pc = "loop" /\ pc' \notin ItemSteps \cup {"loop"} /\ runs' = runs) =>
          /\ idx' = idx
          /\ idx <= Len(all_items) => (max_items > 0 /\ processed_count >= max_items)
          /\ \A i \in 1..(idx - 1) : \A j \in idx..Len(all_items) :
                ParsedTime(all_items[j]) <= ParsedTime(all_items[i])

C22_NewestFirstVisit == [][C22_Step]_vars

\* the budget of one stopped the loop after the newest item; an older item
\* and one with an unparseable date were left unvisited
C22_Witness ==
    /\ max_items = 1 /\ processed_count = 1
    /\ pc \in {"hk_delete", "summary"}
    /\ idx = 2 /\ Len(all_items) = 3
    /\ all_items[3].published = Unparseable

\* ----------------------------------------------------------- ledger claims
LedgerKeys(st) == { i \in ItemIds : st[i] # NoTs }

\* C23: for retention_days > 0 prune_state_by_retention removes exactly the
\* entries whose timestamp does not parse or is strictly older than
\* now - retention_days, keeps every other entry as it was (one at the cutoff
\* included; at 30 days a 31-day-old entry goes and a 5-day-old one stays),
\* and returns the number of entries removed.
C23_PruneExact ==
    (lpc = "pruned" /\ retention_days > 0) =>
        /\ \A i \in ItemIds :
              IF /\ l_before[i] # NoTs
                 /\ (l_before[i] = CorruptTs \/ l_before[i] < now - retention_days)
              THEN state[i] = NoTs
              ELSE state[i] = l_before[i]
        /\ l_ret = Cardinality(LedgerKeys(l_before) \ LedgerKeys(state))
        /\ retention_days = 30 =>
              \A i \in ItemIds :
                  /\ l_before[i] = now - 31 => state[i] = NoTs
                  /\ l_before[i] = now - 5 => state[i] = now - 5

\* a 31-day-old entry and a corrupt one were removed, the entry exactly 30
\* days old was kept
C23_Witness ==
    /\ lpc = "pruned" /\ retention_days = 30
    /\ \E i, j, k \in ItemIds :
          /\ l_before[i] = now - 31 /\ l_before[j] = CorruptTs
          /\ l_before[k] = now - 30
          /\ state[i] = NoTs /\ state[j] = NoTs /\ state[k] = now - 30
    /\ l_ret = 2

\* C24: after mark_processed(state, id, ts) the ID is in the ledger with
\* timestamp ts (the current time when none is given), every other entry is
\* as before and at most one key was added; the same call made again leaves
\* the ledger unchanged.
C24_MarkIdempotentUpsert ==
    /\ lpc \in {"marked", "marked_again"} =>
          /\ InLedger(state, l_item)
          /\ state[l_item] = IF l_ts = NoTs THEN now ELSE l_ts
          /\ \A i \in ItemIds \ {l_item} : state[i] = l_before[i]
          /\ Cardinality(LedgerKeys(state)) <= Cardinality(LedgerKeys(l_before)) + 1
          /\ LedgerKeys(l_before) \subseteq LedgerKeys(state)
    /\ lpc = "marked_again" => state = l_before

\* an entry that existed with another timestamp was overwritten, then the
\* call was repeated
C24_Witness ==
    /\ lpc = "marked_again"
    /\ l_hist = <<"pruned", "marked", "marked_again">>
    /\ l_ts = 26 /\ state[l_item] = 26
    /\ Cardinality(LedgerKeys(state)) = 3
    /\ retention_days = 0

LastOps(n) == SubSeq(l_hist, Len(l_hist) - n + 1, Len(l_hist))

\* C25: mark_processed, then save_state, then load_state from the same store
\* give a ledger in which the marked ID is processed and every entry present
\* before the save is present with the same timestamp; save_state writes the
\* document, holding exactly the ledger's entries, at state/processed.json
\* and at no other key.
C25_RoundTrip ==
    /\ (Len(l_hist) >= 3 /\ LastOps(3) = <<"marked", "saved", "loaded">>) =>
          /\ InLedger(state, l_item)
          /\ state[l_item] = IF l_ts = NoTs THEN now ELSE l_ts
          /\ \A i \in ItemIds : l_before[i] # NoTs => state[i] = l_before[i]
          /\ LedgerKeys(state) = LedgerKeys(l_before)
    /\ lpc = "saved" =>
          /\ l_store["state/processed.json"].exists
          /\ l_store["state/processed.json"].processed_is_dict
          /\ l_store["state/processed.json"].members
                 = { <<i, state[i]>> : i \in LedgerKeys(state) }
    /\ l_store["state/other.json"] \in {NoSuchKey, Malformed}

\* the store held a malformed document; two entries and the marked one came
\* back from it
C25_Witness ==
    /\ l_hist = <<"marked", "saved", "loaded">>
    /\ Cardinality(LedgerKeys(state)) = 3
    /\ \E i \in ItemIds : state[i] = CorruptTs
    /\ l_store["state/other.json"] = Malformed

\* ------------------------------------------------------------ key claims
\* the day in UTC that a parseable published string names
PublishedUtcDay(published) ==
    CASE published \div 100 = 1 -> (published % 100) + 1
      [] published \div 100 = 2 -> (published % 100) - 1
      [] OTHER -> published % 100

\* C26: _build_video_key depends on title, item ID and published alone: two
\* calls with equal values of the three return equal keys, whatever the
\* items' other fields, the time and the machine's time zone; the key starts
\* with videos/ and the date in UTC of the parsed publish date, 1970/01/01
\* when the date does not parse.
C26_KeyDeterministic ==
    /\ sel_pc = "second" => sel_out_perm = sel_out
    /\ sel_pc \in {"first", "moved", "second"} =>
          /\ sel_out.prefix = "videos"
          /\ sel_out.date = IF sel_items[1].published = Unparseable THEN 0
                            ELSE PublishedUtcDay(sel_items[1].published)

\* a date without a zone; the clock and the time zone changed between the
\* calls, and the second item comes from another feed
C26_Witness ==
    /\ sel_pc = "second"
    /\ sel_items[1].published = 301
    /\ sel_perm[1].feed_name # sel_items[1].feed_name
    /\ local_tz = 1 /\ now = 2
    /\ sel_out_perm.date = 1

\* the steps made inside the with block of the scratch directory
ScratchSteps == {"download", "script", "tts", "render", "upload", "presign",
                 "record"}

\* C27: the scratch directory made for an item is removed on every way out
\* of the item (produced, nothing downloadable, an error at any step) before
\* the next item is examined and before housekeeping: a directory exists
\* exactly while one of the item's steps from the download on is under way,
\* and never more than one.
C27_Step ==
    /\ tmp_dirs' \in {0, 1}
    /\ tmp_dirs' = IF pc' \in ScratchSteps THEN 1 ELSE 0
    /\ (pc \in ScratchSteps /\ pc' \notin ScratchSteps) =>
          /\ pc' = "loop" /\ idx' = idx + 1
          /\ tmp_dirs = 1 /\ tmp_dirs' = 0

C27_ScratchRemoved == [][C27_Step]_vars

\* one item was produced, one had nothing downloadable, one failed; the loop
\* is over and no directory is left
C27_Witness ==
    /\ pc = "hk_delete"
    /\ stats.processed = 1 /\ stats.errors = 1
    /\ stats.skipped_no_downloadable_image = 1
    /\ tmp_dirs = 0

\* ---------------------------------------------------------- outcome claims
OutcomeCounters == {"processed", "skipped_duplicate", "skipped_no_image",
                    "skipped_no_downloadable_image", "errors"}

\* the step leaves every outcome counter as it was
CountersUnchanged == \A c \in OutcomeCounters : stats'[c] = stats[c]

\* the step adds one to exactly one outcome counter
OneCounterIncremented ==
    \E c \in OutcomeCounters :
        /\ stats'[c] = stats[c] + 1
        /\ \A d \in OutcomeCounters \ {c} : stats'[d] = stats[d]

\* C28: every worklist item the loop examines, in a real or a dry run, is
\* counted exactly once: the step that ends the item adds one to exactly one
\* of processed, skipped_duplicate, skipped_no_image,
\* skipped_no_downloadable_image and errors, and no other step of the loop
\* changes any of them (so a skip is never counted as an error as well).
C28_Step ==
    (pc \in ItemSteps \cup {"loop"} /\ runs' = runs) =>
        IF idx' = idx + 1 THEN OneCounterIncremented ELSE CountersUnchanged

C28_OutcomeCountedOnce == [][C28_Step]_vars

\* in a run that is not a dry run the counting holds
OutcomeCountedOnceInRealRuns ==
    [][~dry_run => C28_Step]_vars

\* the order of the steps made for one item
StepOrder == <<"exists", "download", "script", "tts", "render", "upload",
               "presign", "record">>

StepIndex(step) == CHOOSE i \in 1..Len(StepOrder) : StepOrder[i] = step

\* C29: for each item the steps come in the order has-media check, ledger
\* check, output-exists check, download, narration, speech, render, upload,
\* record: an item without media is skipped as such whatever the ledger
\* holds; the existence check is entered only for an item with media that
\* is not in the ledger; every later step is entered only from the step
\* before it, when that one succeeded, so with all earlier calls of the item
\* succeeded; an object is written only by the upload step after a successful
\* render; a result is appended, with its ledger mark, only by the record
\* step after a successful upload.
C29_Step ==
    /\ (AtItem /\ cur.item_id \notin seen_item_ids /\ cur.image_urls = 0) =>
          /\ stats'.skipped_no_image = stats.skipped_no_image + 1
          /\ pc' = "loop" /\ idx' = idx + 1
    /\ (pc' = "exists" /\ pc # "exists") =>
          /\ AtItem /\ ~dry_run
          /\ cur.image_urls # 0
          /\ ~InLedger(state, cur.item_id)
    /\ (pc' \in ItemSteps \ {"exists"} /\ pc' # pc) =>
          /\ pc = StepOrder[StepIndex(pc') - 1]
          /\ idx' = idx
          /\ \A i \in 2..(StepIndex(pc') - 1) : StepOrder[i] \in steps_ok'
    /\ pc' = "download" => ~InStore(r2_objects, KeyOf(cur))
    /\ pc' \in {"script", "tts", "render", "upload", "presign", "record"} =>
          downloaded' >= 1
    /\ (\E k \in Keys : r2_objects'[k] # NoTs /\ r2_objects'[k] # r2_objects[k]) =>
          /\ pc = "upload" /\ pc' = "presign"
          /\ {"download", "script", "tts", "render"} \subseteq steps_ok
          /\ r2_objects' = [r2_objects EXCEPT ![KeyOf(cur)] = now]
    /\ (created' # created /\ runs' = runs) =>
          /\ pc = "record"
          /\ {"render", "upload", "presign"} \subseteq steps_ok
          /\ InStore(r2_objects, KeyOf(cur))
          /\ InLedger(state', cur.item_id)
    /\ (\E i \in ItemIds : state'[i] # NoTs /\ state'[i] # state[i] /\ runs' = runs
                             /\ pc \in ItemSteps) =>
          InStore(r2_objects, KeyOf(cur))

C29_StepsInOrder == [][C29_Step]_vars

\* an item at its record step: every call before it succeeded and its video
\* is in the store
C29_Witness ==
    /\ pc = "record"
    /\ steps_ok = {"download", "script", "tts", "render", "upload", "presign"}
    /\ InStore(r2_objects, KeyOf(cur))
    /\ ~InLedger(state, cur.item_id)

\* ------------------------------------------------------- similarity claims
\* the similarity is 1.0; it reaches the threshold of 0.84
IsOne(f) == f[2] > 0 /\ f[1] = f[2]

IsZero(f) == f[2] > 0 /\ f[1] = 0

ReachesThreshold(f) == f[1] * 100 >= 84 * f[2]

\* C30 as claimed: two items whose normalized title+summary texts are
\* identical have similarity 1.0, for all such texts.
C30_Original ==
    (sel_pc = "compared" /\ _story_text(sel_items[1]) = _story_text(sel_items[2])) =>
        IsOne(sel_out)

\* C30 amended: two items whose normalized title+summary texts are identical
\* and not empty have similarity 1.0 and are the same story at the
\* threshold; when either normalized text is empty the similarity is 0.0,
\* also between two empty texts, and the items are not the same story.
C30_IdenticalTextSimilarity ==
    sel_pc = "compared" =>
        /\ (/\ _story_text(sel_items[1]) = _story_text(sel_items[2])
            /\ _story_text(sel_items[1]) # <<>>) =>
              /\ IsOne(sel_out)
              /\ ReachesThreshold(sel_out)
        /\ (\/ _story_text(sel_items[1]) = <<>>
            \/ _story_text(sel_items[2]) = <<>>) =>
              /\ IsZero(sel_out)
              /\ ~ReachesThreshold(sel_out)

\* the titles "A!" and " a" with the summary "b": different strings, one
\* normalized text, "a b"
C30_Witness ==
    /\ sel_pc = "compared"
    /\ sel_items[1].title = <<11, 9>> /\ sel_items[1].summary = <<2>>
    /\ sel_items[2].title = <<0, 1>> /\ sel_items[2].summary = <<2>>
    /\ _story_text(sel_items[1]) = <<1, 0, 2>>
    /\ IsOne(sel_out)

\* ---------------------------------------------------------------- C31
NonBlank(s) == Strip(s) # <<>>

\* the fields on which the entries differ
Differ(a, b) == { f \in EntryFields : a[f] # b[f] }

\* the ID the precedence rule names for an entry
HasGuid(e) == NonBlank(e.id) \/ NonBlank(e.guid)

RuleKind(e) ==
    IF HasGuid(e) THEN "guid:" ELSE IF NonBlank(e.link) THEN "link:" ELSE "hash:"

RuleValue(e) ==
    IF NonBlank(e.id) THEN Strip(e.id)
    ELSE IF NonBlank(e.guid) THEN Strip(e.guid)
    ELSE Strip(e.link)

\* the fields the ID of an entry does not depend on
OtherFields(e) ==
    IF HasGuid(e) \/ NonBlank(e.link)
    THEN {"summary", "title", "published", "updated"}
    ELSE {"summary"}

\* C31: the ID is 'guid:' + id/guid when a non-blank id or guid exists, else
\* 'link:' + link when a non-blank link exists, else 'hash:' + a digest; and
\* a change to any other field (the summary, and the title or the date when
\* a guid or link exists) never changes the ID.
C31_ItemIdPrecedence ==
    /\ sel_pc \in {"first", "changed", "second"} =>
          /\ sel_out[1] = RuleKind(sel_items[1])
          /\ sel_out[1] # "hash:" => sel_out[2] = RuleValue(sel_items[1])
    /\ (/\ sel_pc = "second"
        /\ Differ(sel_items[1], sel_perm[1]) \subseteq OtherFields(sel_items[1])) =>
          sel_out_perm = sel_out

\* an id that is not empty and is blank, beside a guid that is not blank
BlankIdHidesGuid(e) == e.id # <<>> /\ ~NonBlank(e.id) /\ NonBlank(e.guid)

\* the rule holds for every entry but those
ItemIdPrecedenceUnlessBlankId ==
    ~BlankIdHidesGuid(sel_items[1]) => C31_ItemIdPrecedence

\* ---------------------------------------------------------------- C32
DlOver == upc \in {"returned", "skipped_no_downloadable_image", "create_script"}

\* the URLs among the first n that download
OkBefore(n) == { i \in 1..n : image_urls[i] = "ok" }

\* C32: download_images never raises because of a failing URL; it returns
\* the files of the URLs that downloaded, in input order, at most max_images
\* of them; it requests no further URL once max_images have succeeded; it
\* returns an empty list when every URL fails, and the run then skips the
\* item as no-downloadable-image.
C32_DownloadBestEffort ==
    /\ upc # "raised"
    /\ upc # "idle" =>
          /\ requested = [i \in 1..Len(requested) |-> i]
          /\ paths = SelectSeq(requested, LAMBDA i : image_urls[i] = "ok")
          /\ Len(paths) <= max_images
          /\ \A i \in 1..Len(requested) :
                Cardinality(OkBefore(i - 1)) < max_images
    /\ DlOver =>
          /\ Len(paths) < max_images => Len(requested) = Len(image_urls)
          /\ OkBefore(Len(image_urls)) = {} => paths = <<>>
    /\ upc = "skipped_no_downloadable_image" => paths = <<>>
    /\ upc = "create_script" => paths # <<>>

\* of four URLs the first fails to connect, the second and fourth download
\* and the third cannot be written; with max_images 2 all four are requested
C32_Witness ==
    /\ upc = "create_script"
    /\ image_urls = <<"ConnectionError", "ok", "OSError", "ok">>
    /\ max_images = 2
    /\ paths = <<2, 4>>
    /\ requested = <<1, 2, 3, 4>>

\* ---------------------------------------------------------------- C33
\* the objects under videos/ last modified strictly before now - retention_days
StaleVideos ==
    { k \in BucketKeys : /\ k[1] = "videos/" /\ bucket[k] # NoTs
                         /\ bucket[k] < now - retention_days }

\* the call deletes exactly the stale videos
PurgeDeletesStale ==
    \A k \in BucketKeys : bucket'[k] = IF k \in StaleVideos THEN NoTs ELSE bucket[k]

C33_Step ==
    (upc = "collected" /\ upc' = "returned" /\ retention_days > 0) =>
        /\ PurgeDeletesStale
        /\ deleted' = Cardinality(StaleVideos)

\* C33: for retention_days > 0, delete_videos_older_than deletes exactly the
\* objects under videos/ last modified strictly before now - retention_days,
\* deletes no newer object, and returns the number of objects deleted.
C33_PurgeExact == [][C33_Step]_vars

\* the objects deleted are exactly the stale videos, and the number returned
\* is theirs when the store's reply lists the deleted keys
PurgeExactUnlessQuiet ==
    [][(upc = "collected" /\ upc' = "returned" /\ retention_days > 0) =>
         /\ PurgeDeletesStale
         /\ ~quiet_reply => deleted' = Cardinality(StaleVideos)
         /\ quiet_reply => deleted' = 0]_vars

\* ---------------------------------------------------------------- C34
MaxFontSize == 32

\* C34: load_style_config clamps the caption font size: a configured 80
\* yields 32, and the size handed to the renderer never exceeds 32.
C34_FontSizeClamped ==
    upc \in {"loaded", "rendered"} =>
        /\ style.caption_font_size <= MaxFontSize
        /\ style_json.caption_font_size = 80 => style.caption_font_size = MaxFontSize

\* what the function does: the configured size, or 46 when none is set
FontSizeAsConfigured ==
    upc \in {"loaded", "rendered"} =>
        style.caption_font_size =
            IF style_json.caption_font_size = Missing THEN DefaultFontSize
            ELSE style_json.caption_font_size

\* ---------------------------------------------------------------- C35
\* the kept items the mapping names as the keeper of an item
KeepersOf(item, out) ==
    { k \in 1..Len(out.kept) :
        /\ item.item_id \in DOMAIN out.skipped_map
        /\ out.kept[k].item_id = out.skipped_map[item.item_id] }

\* kept is in oldest-first order
KeptOldestFirst(out) ==
    \A i, j \in 1..Len(out.kept) :
        i < j => PublishedKey(out.kept[i]) <= PublishedKey(out.kept[j])

\* an item whose date does not parse counts as epoch zero and is no skipped
\* item's junior: it is kept or its keeper is at epoch zero too
UnparseableWins(items, out) ==
    \A i \in 1..Len(items) :
        items[i].published = Unparseable =>
            /\ PublishedKey(items[i]) = Epoch
            /\ \A j \in 1..Len(items) :
                  (SameStory(items[i], items[j]) /\ PublishedKey(items[j]) > Epoch)
                      => ~InSeq(items[j], out.kept)

\* C35: first reporter wins: the keeper of every item recorded in the
\* skipped-to-keeper mapping has a parsed publish time no later than the
\* skipped item's; kept is in oldest-first order; an item with an
\* unparseable publish time counts as epoch zero and wins over every dated
\* near-duplicate.
C35_FirstReporterWins ==
    sel_pc = "selected" =>
        /\ \A i \in 1..Len(sel_items) :
              ~InSeq(sel_items[i], sel_out.kept) =>
                  \A k \in KeepersOf(sel_items[i], sel_out) :
                      PublishedKey(sel_out.kept[k]) <= PublishedKey(sel_items[i])
        /\ KeptOldestFirst(sel_out)
        /\ UnparseableWins(sel_items, sel_out)

\* on inputs whose item IDs are pairwise distinct the three parts hold
FirstReporterWinsOnDistinctIds ==
    DistinctIds(sel_items) => C35_FirstReporterWins

\* ---------------------------------------------------------------- C36
\* the steps made for one item after its existence check answered no
AfterExistsFalse == {"download", "script", "tts", "render", "upload"}

\* the keys whose object this step writes
Uploaded == { k \in Keys : r2_objects'[k] # r2_objects[k] /\ r2_objects'[k] # NoTs }

C36_Step ==
    /\ \A k \in Uploaded :
          /\ ~dry_run /\ pc = "upload" /\ k = KeyOf(cur)
          /\ r2_objects[k] = NoTs
    /\ (pc = "exists" /\ object_exists(r2_objects, KeyOf(cur))) =>
          /\ pc' \in {"loop", "aborted"}
          /\ r2_objects' = r2_objects
          /\ created' = created
    /\ (pc = "exists" /\ pc' = "download") => ~object_exists(r2_objects, KeyOf(cur))
    /\ pc' \in AfterExistsFalse =>
          /\ pc \in {"exists"} \cup AfterExistsFalse
          /\ ~object_exists(r2_objects', KeyOf(cur))

\* C36: no artifact is overwritten: in a run that is not a dry run an upload
\* to key K is made only after the existence check for K answered no in the
\* same item's processing, and K holds no object when it is written; an item
\* whose key holds an object is not downloaded, narrated, rendered or
\* uploaded again, whether or not its ID is in the ledger.
C36_NoOverwrite == [][C36_Step]_vars

\* a second run meets, first in its worklist, an item whose video an earlier
\* run uploaded without recording it: the ledger loaded does not hold its
\* ID, the key holds the object, and the item is skipped and marked
C36_Witness ==
    /\ runs = 2 /\ ~dry_run /\ pc = "loop" /\ idx = 2
    /\ all_items[1].image_urls # 0
    /\ state0[all_items[1].item_id] = NoTs
    /\ r2_objects[KeyOf(all_items[1])] # NoTs
    /\ stats.skipped_duplicate = 1
    /\ state[all_items[1].item_id] # NoTs
    /\ created = <<>>

\* ---------------------------------------------------------------- C37
\* the item loop is under way
InItemLoop == pc \in {"loop"} \cup ItemSteps

\* this step ends the current item as produced
ProducedNow == pc = "record" /\ Len(created') = Len(created) + 1

\* this step ends the current item because its output key holds an object
OutputExistedNow ==
    pc = "exists" /\ object_exists(r2_objects, KeyOf(cur)) /\ pc' = "loop"

C37_Step ==
    InItemLoop =>
        /\ (state' # state) <=> (ProducedNow \/ OutputExistedNow)
        /\ \A i \in ItemIds :
              state'[i] # state[i] =>
                  /\ i = cur.item_id
                  /\ state'[i] = now
        /\ (ProducedNow \/ OutputExistedNow) => state'[cur.item_id] = now

\* C37: during the item loop the ledger gains or refreshes the entry of
\* item X if and only if X was produced in this run or X's output key was
\* found to hold an object; every other outcome of an item, and every item
\* not visited, leaves the ledger as it was.
C37_LedgerChangesOnlyOnSuccess == [][C37_Step]_vars

\* a run that has produced one item and lost another to an error: only the
\* produced item's entry was added to the ledger that was loaded
C37_Witness ==
    /\ ~dry_run /\ pc = "loop" /\ idx = 3
    /\ Len(created) = 1 /\ stats.errors = 1
    /\ state[created[1].item_id] = now
    /\ state0[created[1].item_id] = NoTs
    /\ \A i \in ItemIds : i # created[1].item_id => state[i] = state0[i]
    /\ \E j \in 1..2 : all_items[j].item_id # created[1].item_id

\* ---------------------------------------------------------------- C38
\* the entries marked during this run: they are not those of the ledger loaded
MarkedThisRun == { i \in ItemIds : state[i] # NoTs /\ state[i] # state0[i] }

\* a run that is not a dry run is between its setup and its end
RunUnderWay == ~dry_run /\ pc \in {"fetch", "select", "loop"} \cup ItemSteps \cup HkSteps

C38_Step ==
    /\ (ProducedNow \/ OutputExistedNow) =>
          /\ state0[cur.item_id] = NoTs
          /\ state'[cur.item_id] # NoTs
    /\ (pc = "hk_prune" /\ pc' = "hk_save") =>
          /\ \A i \in MarkedThisRun : state'[i] = state[i]
          /\ \A i \in ItemIds :
                state'[i] # state[i] =>
                    /\ retention_days > 0
                    /\ state'[i] = NoTs
                    /\ state0[i] # NoTs
                    /\ state0[i] < now - retention_days
    /\ (RunUnderWay /\ pc # "hk_prune") =>
          \A i \in ItemIds : state[i] # NoTs => state'[i] # NoTs
    /\ (pc = "hk_save" /\ pc' = "hk_send") =>
          /\ r2_state' = state
          /\ \A i \in MarkedThisRun : r2_state'[i] = now
          /\ \A c \in 1..Len(created) : r2_state'[created[c].item_id] = now

\* C38: in every run that is not a dry run and reaches the ledger save, the
\* saved document holds every item produced in the run and every item
\* skipped because its output existed: the prune of the same run, whatever
\* retention_days is, removes no entry marked during the run, and an entry
\* loaded at the start of the run is removed by that prune only.
C38_SavedLedgerKeepsThisRun == [][C38_Step]_vars

\* a second run has saved a ledger that holds the item it produced, while
\* its prune removed an entry it had loaded
C38_Witness ==
    /\ runs = 2 /\ ~dry_run /\ pc = "hk_send"
    /\ retention_days > 0
    /\ Len(created) = 1
    /\ r2_state[created[1].item_id] = now
    /\ \E i \in ItemIds : state0[i] # NoTs /\ r2_state[i] = NoTs

\* ---------------------------------------------------------------- C39
\* the IDs recorded in the skipped-to-keeper mapping of this run
SkippedIds ==
    DOMAIN _select_first_chronological_unique_stories(feed_candidates).skipped_map

\* the worklist has been selected
Selected == pc \in {"loop", "hk_delete", "summary", "aborted"} \cup ItemSteps

\* C39: an item recorded in the skipped-to-keeper mapping is never examined
\* by the item loop of that run, whatever happens to its keeper: it is not
\* in the worklist, it is not marked in the ledger, and it is counted in
\* skipped_same_story only.
C39_SkippedNeverExamined ==
    Selected =>
        /\ \A j \in 1..Len(all_items) : all_items[j].item_id \notin SkippedIds
        /\ seen_item_ids \cap SkippedIds = {}
        /\ \A i \in SkippedIds \cap ItemIds : state[i] = state0[i]
        /\ \A c \in 1..Len(created) : created[c].item_id \notin SkippedIds
        /\ stats.skipped_same_story = Cardinality(SkippedIds)

\* on candidates whose item IDs are pairwise distinct the claim holds
SkippedNeverExaminedOnDistinctIds ==
    DistinctIds(feed_candidates) => C39_SkippedNeverExamined

\* ---------------------------------------------------------------- C40
\* the worklist items the loop has gone past
Visited == 1..(IF idx - 1 < Len(all_items) THEN idx - 1 ELSE Len(all_items))

C40_Step ==
    /\ (Examining /\ cur.item_id \in seen_item_ids) =>
          /\ idx' = idx + 1 /\ pc' = "loop"
          /\ stats' = [stats EXCEPT !.skipped_duplicate = @ + 1]
          /\ seen_item_ids' = seen_item_ids
          /\ state' = state /\ created' = created /\ r2_objects' = r2_objects
          /\ processed_count' = processed_count
    /\ (pc = "loop" /\ seen_item_ids' # seen_item_ids) =>
          /\ cur.item_id \notin seen_item_ids
          /\ seen_item_ids' = seen_item_ids \cup {cur.item_id}

\* every item the loop has gone past, skipped and failed ones too, has its
\* ID among the IDs seen, and no ID is produced twice (true of every state
\* a step leads to; before the first step no run has started)
C40_Seen ==
    (pc \in {"loop"} \cup ItemSteps) =>
        /\ \A j \in Visited : all_items[j].item_id \in seen_item_ids
        /\ pc \in ItemSteps => cur.item_id \in seen_item_ids
        /\ \A c, d \in 1..Len(created) :
              created[c].item_id = created[d].item_id => c = d

\* C40: within one run at most one worklist item per item ID gets past the
\* duplicate-in-run check: a later item carrying an ID already seen is
\* skipped and counted in skipped_duplicate, also when the first item with
\* that ID was skipped or failed; no item ID is produced twice in one run.
C40_OnePerIdInRun == [][C40_Step /\ C40_Seen']_vars

\* the first item of the worklist failed and the second, which carries the
\* same item ID, was skipped as a duplicate
C40_Witness ==
    /\ ~dry_run /\ pc = "loop" /\ idx = 3
    /\ all_items[1].item_id = all_items[2].item_id
    /\ stats.errors = 1 /\ stats.skipped_duplicate = 1
    /\ created = <<>>

=============================================================================
